---- MODULE Spec2Model ----
(***************************************************************************)
(* Model of unicode-explorer: the Block Catalog helpers of                 *)
(* app/data/unicode-blocks.ts (hex parsing, code point lookup), the        *)
(* request-time name loader of app/data/unicode-names.server.ts and the    *)
(* name readers.  Texts are sequences of one-character strings.            *)
(***************************************************************************)
EXTENDS Integers, Sequences, FiniteSets, TLC

VARIABLES
  text,            \* parse: the text handed to the search box / URL segment
  hexResult,       \* parse: outcome of parseHexSearch(text)
  cpResult,        \* parse: outcome of parseCodePoint(text)
  UNICODE_BLOCKS,  \* catalog: the exported block table
  codePoint,       \* catalog: argument of getBlockByCodePoint
  foundBlock,      \* catalog: outcome of getBlockByCodePoint(codePoint)
  files,           \* names: state of <slug>.json in NAMES_DIR
  namesCache,      \* names: the module-level Map of loaded names
  fsTouches,       \* names: per slug, number of calls that went to the file system
  firstLoad,       \* names: per slug, what the first loadBlockNames call returned
  lastLoad,        \* names: outcome of the latest loadBlockNames call
  lookup,          \* names: outcome of the latest name lookup on lastLoad's value
  CATEGORIES,      \* catalog: the exported list of distinct categories
  call,            \* catalog: the latest catalog operation, its arguments and result
  syllable,        \* build: argument and outcome of getHangulSyllableName
  env,             \* build: the UCD document, the cache and what fetch, unzip and jar will do
  stage,           \* build: where main() stands
  log,             \* build: the steps and commands run so far, in order
  zipCached,       \* build: whether the archive is in CACHE_DIR
  blockDataMap,    \* build: per slug, the names collected so far
  outputDir,       \* build: per slug, the state of <slug>.json in OUTPUT_DIR
  exitCode,        \* build: exit status of the process
  runs,            \* build: the earlier runs of the script, oldest first
  page,            \* search: the page whose search box is typed into
  searchBox,       \* search: the page's searchQuery state
  timers,          \* search: the timeouts set and not yet run, oldest first
  navigations,     \* search: the navigate() calls made, oldest first
  keys,            \* search: the changes of the search box so far, oldest first
  clock,           \* search, toast: time in milliseconds
  hooks,           \* hook: per useCharacterNames instance, its props and state
  hookCache,       \* hook: the module-level namesCache Map of the hooks file
  loadingPromises, \* hook: per slug, the promise in the loadingPromises Map, or 0
  promises,        \* hook: the load promises created so far, oldest first
  callbacks,       \* hook: the then-callbacks attached to load promises and not yet run
  storage,         \* favorites: the localStorage item of STORAGE_KEY
  favorites,       \* favorites: the favorites state of the latest render
  isLoaded,        \* favorites: the isLoaded state of the latest render
  updates,         \* favorites: the queued state updates, oldest first
  effects,         \* favorites: the effects scheduled and not yet run, in order
  writes,          \* favorites: the setItem calls made, oldest first
  loadRead,        \* favorites: whether the load effect has read the item, and what it read
  calls,           \* favorites: the toggle, add and remove calls made, oldest first
  toastMsg,        \* toast: whether the page's toastMsg state holds a message
  toastTimer,      \* toast: the timer of the Toast effect
  toastShown,      \* toast: when the toast appeared and when it was closed
  moves,           \* toast: the mouse moves handled so far
  snippets         \* snippets: outcome of getCodeSnippets(cpResult.value)

parseVars == <<text, hexResult, cpResult>>
catalogVars == <<UNICODE_BLOCKS, codePoint, foundBlock>>
namesVars == <<files, namesCache, fsTouches, firstLoad, lastLoad, lookup>>
opsVars == <<CATEGORIES, call>>
buildVars == <<syllable, env, stage, log, zipCached, blockDataMap, outputDir, exitCode, runs>>
searchVars == <<page, searchBox, timers, navigations, keys, clock>>
hookVars == <<hooks, hookCache, loadingPromises, promises, callbacks>>
favVars == <<storage, favorites, isLoaded, updates, effects, writes, loadRead, calls>>
toastVars == <<toastMsg, toastTimer, toastShown, moves>>
uiVars == <<searchVars, hookVars, favVars, toastVars, snippets>>
vars == <<text, hexResult, cpResult, UNICODE_BLOCKS, codePoint, foundBlock,
          files, namesCache, fsTouches, firstLoad, lastLoad, lookup,
          CATEGORIES, call,
          syllable, env, stage, log, zipCached, blockDataMap, outputDir, exitCode, runs,
          page, searchBox, timers, navigations, keys, clock,
          hooks, hookCache, loadingPromises, promises, callbacks,
          storage, favorites, isLoaded, updates, effects, writes, loadRead, calls,
          toastMsg, toastTimer, toastShown, moves, snippets>>

----------------------------------------------------------------------------
(* Bounds *)

MaxLen == 4          \* longest text enumerated over ShortAlphabet
MaxSmallCp == 40     \* code points 0..MaxSmallCp are all spelled out
MaxTouches == 3      \* cap on the per-slug file system access counter
MaxRecords == 2      \* most elements in a UCD document
Margin == 1          \* the backfill loops are followed this close to their edges
MaxRuns == 3         \* most runs of the build script in a row
MaxKeys == 3         \* most changes of the search box
MaxClock == 700      \* the clock, in milliseconds, stops here
MaxHooks == 2        \* most useCharacterNames instances
MaxChanges == 1      \* most changes of blockSlug, all instances together
MaxFetches == 2      \* most fetches started for one slug
MaxCalls == 2        \* most calls of the favorites operations
MaxMoves == 3        \* most mouse moves over the character preview
MaxToastClock == 4000 \* the clock of the toast, in milliseconds, stops here

MAX_CODE_POINT == 1114111   \* 0x10ffff

----------------------------------------------------------------------------
(* JavaScript string primitives *)

Range(f) == {f[i] : i \in DOMAIN f}

Min(S) == CHOOSE x \in S : \A y \in S : x <= y

LowerLetters ==
  << "a", "b", "c", "d", "e", "f", "g", "h", "i", "j", "k", "l", "m",
     "n", "o", "p", "q", "r", "s", "t", "u", "v", "w", "x", "y", "z" >>

UpperLetters ==
  << "A", "B", "C", "D", "E", "F", "G", "H", "I", "J", "K", "L", "M",
     "N", "O", "P", "Q", "R", "S", "T", "U", "V", "W", "X", "Y", "Z" >>

\* digits as Number.prototype.toString(16) prints them
RadixDigits ==
  << "0", "1", "2", "3", "4", "5", "6", "7", "8", "9",
     "a", "b", "c", "d", "e", "f" >>

toUpperCaseChar(c) ==
  IF \E i \in DOMAIN LowerLetters : LowerLetters[i] = c
    THEN UpperLetters[CHOOSE i \in DOMAIN LowerLetters : LowerLetters[i] = c]
    ELSE c

toLowerCaseChar(c) ==
  IF \E i \in DOMAIN UpperLetters : UpperLetters[i] = c
    THEN LowerLetters[CHOOSE i \in DOMAIN UpperLetters : UpperLetters[i] = c]
    ELSE c

toUpperCase(s) == [i \in 1..Len(s) |-> toUpperCaseChar(s[i])]

\* a digit of radix 16 as parseInt reads it: either letter case
IsRadixDigit(c) == toLowerCaseChar(c) \in Range(RadixDigits)

DigitValue(c) ==
  (CHOOSE i \in DOMAIN RadixDigits : RadixDigits[i] = toLowerCaseChar(c)) - 1

IsWhiteSpace(c) == c = " "

RECURSIVE numberToString16(_)
numberToString16(n) ==
  IF n < 16 THEN <<RadixDigits[n + 1]>>
  ELSE numberToString16(n \div 16) \o <<RadixDigits[(n % 16) + 1]>>

RECURSIVE padStart(_, _, _)
padStart(s, targetLength, fill) ==
  IF Len(s) >= targetLength THEN s ELSE padStart(<<fill>> \o s, targetLength, fill)

\* NaN and numbers, as parseInt returns them
NaN == [isNaN |-> TRUE, value |-> 0]
Num(n) == [isNaN |-> FALSE, value |-> n]

RECURSIVE TrimStart(_)
TrimStart(s) ==
  IF s # <<>> /\ IsWhiteSpace(Head(s)) THEN TrimStart(Tail(s)) ELSE s

RECURSIVE DigitPrefix(_)
DigitPrefix(s) ==
  IF s # <<>> /\ IsRadixDigit(Head(s))
    THEN <<Head(s)>> \o DigitPrefix(Tail(s))
    ELSE <<>>

RECURSIVE DigitsValue(_)
DigitsValue(z) ==
  IF z = <<>> THEN 0
  ELSE 16 * DigitsValue(SubSeq(z, 1, Len(z) - 1)) + DigitValue(z[Len(z)])

\* parseInt(string, 16): leading white space is skipped, one sign is read,
\* one 0x/0X is dropped, and the longest run of hex digits is the value;
\* whatever follows the run is ignored; no digit at all gives NaN
parseInt16(string) ==
  LET s0 == TrimStart(string)
      negative == s0 # <<>> /\ Head(s0) = "-"
      s1 == IF s0 # <<>> /\ Head(s0) \in {"+", "-"} THEN Tail(s0) ELSE s0
      s2 == IF Len(s1) >= 2 /\ s1[1] = "0" /\ s1[2] \in {"x", "X"}
              THEN SubSeq(s1, 3, Len(s1)) ELSE s1
      z == DigitPrefix(s2)
  IN IF z = <<>> THEN NaN
     ELSE Num(IF negative THEN 0 - DigitsValue(z) ELSE DigitsValue(z))

\* the alternation U\+|0x under the i flag, matched at position i of s
PrefixMatchAt(s, i) ==
  /\ i >= 1
  /\ i + 1 <= Len(s)
  /\ \/ s[i] \in {"U", "u"} /\ s[i + 1] = "+"
     \/ s[i] = "0" /\ s[i + 1] \in {"x", "X"}

\* s.replace(/U\+|0x/i, ""): the first match, wherever it is, is removed
replaceFirstPrefix(s) ==
  IF \E i \in 1..Len(s) : PrefixMatchAt(s, i)
    THEN LET i == Min({j \in 1..Len(s) : PrefixMatchAt(s, j)})
         IN SubSeq(s, 1, i - 1) \o SubSeq(s, i + 2, Len(s))
    ELSE s

\* s.replace(/^(U\+|0x)/i, ""): only a match at the start is removed
replaceLeadingPrefix(s) ==
  IF PrefixMatchAt(s, 1) THEN SubSeq(s, 3, Len(s)) ELSE s

----------------------------------------------------------------------------
(* app/data/unicode-blocks.ts: hex parsing; app/lib/utils.ts: toHex *)

Null == [called |-> TRUE, isNull |-> TRUE, value |-> 0]
Some(n) == [called |-> TRUE, isNull |-> FALSE, value |-> n]
NotCalled == [called |-> FALSE, isNull |-> TRUE, value |-> 0]

toHex(code) == padStart(toUpperCase(numberToString16(code)), 4, "0")

parseHexSearch(query) ==
  LET cleanQuery == toUpperCase(replaceFirstPrefix(query))
      hexMatch == parseInt16(cleanQuery)
  IN IF ~hexMatch.isNaN /\ hexMatch.value >= 0 /\ hexMatch.value <= MAX_CODE_POINT
       THEN Some(hexMatch.value)
       ELSE Null

\* the prefix pattern without the i flag
parseCodePoint_CaseSensitive(codePointStr) ==
  LET cleaned == IF PrefixMatchAt(codePointStr, 1)
                      /\ codePointStr[1] \in {"U", "0"}
                      /\ codePointStr[2] \in {"+", "x"}
                   THEN SubSeq(codePointStr, 3, Len(codePointStr))
                   ELSE codePointStr
      cp == parseInt16(cleaned)
  IN IF ~cp.isNaN /\ cp.value >= 0 /\ cp.value <= MAX_CODE_POINT
       THEN Some(cp.value)
       ELSE Null

\* the comparison with 0 left out
parseCodePoint_NoLowerBound(codePointStr) ==
  LET cleaned == replaceLeadingPrefix(codePointStr)
      cp == parseInt16(cleaned)
  IN IF ~cp.isNaN /\ cp.value <= MAX_CODE_POINT
       THEN Some(cp.value)
       ELSE Null

parseCodePoint(codePointStr) ==
  LET cleaned == replaceLeadingPrefix(codePointStr)
      cp == parseInt16(cleaned)
  IN IF ~cp.isNaN /\ cp.value >= 0 /\ cp.value <= MAX_CODE_POINT
       THEN Some(cp.value)
       ELSE Null

\* Sidebar: the search box runs a name search for these texts
isNameSearch(searchQuery) ==
  Len(searchQuery) >= 2 /\ parseHexSearch(searchQuery).isNull

----------------------------------------------------------------------------
(* Texts handed to the two parsers *)

ShortAlphabet == {"U", "u", "+", "0", "x", "1", "F", "g", "-"}

ShortTexts == UNION {[1..n -> ShortAlphabet] : n \in 0..MaxLen}

Prefixes == {<<>>, <<"U", "+">>, <<"u", "+">>, <<"0", "x">>, <<"0", "X">>}

Signs == {<<>>, <<"-">>, <<"+">>}

CodePointSamples ==
  (0..MaxSmallCp) \cup
    {65, 255, 256, 4095, 4096, 43981, 65535, 65536, 1048575, 1114110, MAX_CODE_POINT}

\* numerals past the last code point
BeyondSamples == {MAX_CODE_POINT + 1, MAX_CODE_POINT + 2, 16777215, 16777216}

\* the hex spellings of a code point: toHex, unpadded upper case, unpadded lower case
Spellings(c) ==
  {toHex(c), toUpperCase(numberToString16(c)), numberToString16(c)}

\* prefix + spelling, with the code point spelled
RoundTripTexts ==
  UNION {{[text |-> p \o h, cp |-> c] : p \in Prefixes, h \in Spellings(c)} :
           c \in CodePointSamples}

SignedTexts ==
  UNION {{p \o sg \o h, sg \o p \o h} :
           p \in Prefixes, sg \in Signs \ {<<>>},
           h \in UNION {{toHex(c), numberToString16(c)} : c \in {0, 1, 65, MAX_CODE_POINT}}}

BeyondTexts ==
  {p \o toUpperCase(numberToString16(c)) : p \in Prefixes, c \in BeyondSamples}

ExampleTexts ==
  { <<"h", "e", "l", "l", "o">>,
    <<"d", "o", "g">>,
    <<"f", "a", "c", "e">>,
    <<"4", "1", "z", "z">>,
    <<"4", "G">>,
    <<"U", "+">>,
    <<"4", "U", "+", "1">>,
    <<" ", "4", "1">> }

Texts ==
  ShortTexts \cup {r.text : r \in RoundTripTexts} \cup SignedTexts
    \cup BeyondTexts \cup ExampleTexts

----------------------------------------------------------------------------
(* Values of the variables a specification does not use *)

IdleParse ==
  /\ text = <<>>
  /\ hexResult = NotCalled
  /\ cpResult = NotCalled

----------------------------------------------------------------------------
(* The parsers applied to a text *)

ParseHexSearch ==
  /\ ~hexResult.called
  /\ hexResult' = parseHexSearch(text)
  /\ UNCHANGED <<text, cpResult, catalogVars, namesVars, opsVars, buildVars, uiVars>>

ParseCodePoint ==
  /\ ~cpResult.called
  /\ cpResult' = parseCodePoint(text)
  /\ UNCHANGED <<text, hexResult, catalogVars, namesVars, opsVars, buildVars, uiVars>>

----------------------------------------------------------------------------
(* app/data/unicode-blocks.ts: the block table *)

\* the table with one mistyped bound: Latin-1 Supplement starts at 0x007f
UNICODE_BLOCKS_RAW_Typo ==
  << [name |-> "Basic Latin (ASCII)", start |-> 0, end |-> 127, cat |-> "Latin"],
     [name |-> "Latin-1 Supplement", start |-> 127, end |-> 255, cat |-> "Latin"],
     [name |-> "Latin Extended-A", start |-> 256, end |-> 383, cat |-> "Latin"],
     [name |-> "Latin Extended-B", start |-> 384, end |-> 591, cat |-> "Latin"],
     [name |-> "IPA Extensions", start |-> 592, end |-> 687, cat |-> "Latin"],
     [name |-> "Spacing Modifier Letters", start |-> 688, end |-> 767, cat |-> "Latin"],
     [name |-> "Combining Diacritical Marks", start |-> 768, end |-> 879, cat |-> "Latin"],
     [name |-> "Greek and Coptic", start |-> 880, end |-> 1023, cat |-> "European"],
     [name |-> "Cyrillic", start |-> 1024, end |-> 1279, cat |-> "European"],
     [name |-> "Cyrillic Supplement", start |-> 1280, end |-> 1327, cat |-> "European"],
     [name |-> "Armenian", start |-> 1328, end |-> 1423, cat |-> "European"],
     [name |-> "Hebrew", start |-> 1424, end |-> 1535, cat |-> "Middle East"],
     [name |-> "Arabic", start |-> 1536, end |-> 1791, cat |-> "Middle East"],
     [name |-> "Syriac", start |-> 1792, end |-> 1871, cat |-> "Middle East"],
     [name |-> "Arabic Supplement", start |-> 1872, end |-> 1919, cat |-> "Middle East"],
     [name |-> "Thaana", start |-> 1920, end |-> 1983, cat |-> "Middle East"],
     [name |-> "NKo", start |-> 1984, end |-> 2047, cat |-> "Africa"],
     [name |-> "Devanagari", start |-> 2304, end |-> 2431, cat |-> "South Asia"],
     [name |-> "Bengali", start |-> 2432, end |-> 2559, cat |-> "South Asia"],
     [name |-> "Gurmukhi", start |-> 2560, end |-> 2687, cat |-> "South Asia"],
     [name |-> "Gujarati", start |-> 2688, end |-> 2815, cat |-> "South Asia"],
     [name |-> "Oriya", start |-> 2816, end |-> 2943, cat |-> "South Asia"],
     [name |-> "Tamil", start |-> 2944, end |-> 3071, cat |-> "South Asia"],
     [name |-> "Telugu", start |-> 3072, end |-> 3199, cat |-> "South Asia"],
     [name |-> "Kannada", start |-> 3200, end |-> 3327, cat |-> "South Asia"],
     [name |-> "Malayalam", start |-> 3328, end |-> 3455, cat |-> "South Asia"],
     [name |-> "Sinhala", start |-> 3456, end |-> 3583, cat |-> "South Asia"],
     [name |-> "Thai", start |-> 3584, end |-> 3711, cat |-> "SE Asia"],
     [name |-> "Lao", start |-> 3712, end |-> 3839, cat |-> "SE Asia"],
     [name |-> "Tibetan", start |-> 3840, end |-> 4095, cat |-> "SE Asia"],
     [name |-> "Myanmar", start |-> 4096, end |-> 4255, cat |-> "SE Asia"],
     [name |-> "Georgian", start |-> 4256, end |-> 4351, cat |-> "European"],
     [name |-> "Hangul Jamo", start |-> 4352, end |-> 4607, cat |-> "East Asia"],
     [name |-> "Ethiopic", start |-> 4608, end |-> 4991, cat |-> "Africa"],
     [name |-> "Cherokee", start |-> 5024, end |-> 5119, cat |-> "American"],
     [name |-> "Unified Canadian Aboriginal", start |-> 5120, end |-> 5759, cat |-> "American"],
     [name |-> "Ogham", start |-> 5760, end |-> 5791, cat |-> "Historic"],
     [name |-> "Runic", start |-> 5792, end |-> 5887, cat |-> "Historic"],
     [name |-> "Tagalog", start |-> 5888, end |-> 5919, cat |-> "SE Asia"],
     [name |-> "Khmer", start |-> 6016, end |-> 6143, cat |-> "SE Asia"],
     [name |-> "Mongolian", start |-> 6144, end |-> 6319, cat |-> "East Asia"],
     [name |-> "Phonetic Extensions", start |-> 7424, end |-> 7551, cat |-> "Language"],
     [name |-> "Latin Extended Additional", start |-> 7680, end |-> 7935, cat |-> "Latin"],
     [name |-> "Greek Extended", start |-> 7936, end |-> 8191, cat |-> "European"],
     [name |-> "General Punctuation", start |-> 8192, end |-> 8303, cat |-> "Symbols"],
     [name |-> "Superscripts and Subscripts", start |-> 8304, end |-> 8351, cat |-> "Symbols"],
     [name |-> "Currency Symbols", start |-> 8352, end |-> 8399, cat |-> "Symbols"],
     [name |-> "Combining Diacritical Marks for Symbols", start |-> 8400, end |-> 8447, cat |-> "Symbols"],
     [name |-> "Letterlike Symbols", start |-> 8448, end |-> 8527, cat |-> "Symbols"],
     [name |-> "Number Forms", start |-> 8528, end |-> 8591, cat |-> "Symbols"],
     [name |-> "Arrows", start |-> 8592, end |-> 8703, cat |-> "Arrows"],
     [name |-> "Mathematical Operators", start |-> 8704, end |-> 8959, cat |-> "Math"],
     [name |-> "Miscellaneous Technical", start |-> 8960, end |-> 9215, cat |-> "Tech"],
     [name |-> "Control Pictures", start |-> 9216, end |-> 9279, cat |-> "Tech"],
     [name |-> "OCR", start |-> 9280, end |-> 9311, cat |-> "Tech"],
     [name |-> "Enclosed Alphanumerics", start |-> 9312, end |-> 9471, cat |-> "Symbols"],
     [name |-> "Box Drawing", start |-> 9472, end |-> 9599, cat |-> "Shapes"],
     [name |-> "Block Elements", start |-> 9600, end |-> 9631, cat |-> "Shapes"],
     [name |-> "Geometric Shapes", start |-> 9632, end |-> 9727, cat |-> "Shapes"],
     [name |-> "Miscellaneous Symbols", start |-> 9728, end |-> 9983, cat |-> "Symbols"],
     [name |-> "Dingbats", start |-> 9984, end |-> 10175, cat |-> "Symbols"],
     [name |-> "Misc Mathematical Symbols-A", start |-> 10176, end |-> 10223, cat |-> "Math"],
     [name |-> "Supplemental Arrows-A", start |-> 10224, end |-> 10239, cat |-> "Arrows"],
     [name |-> "Braille Patterns", start |-> 10240, end |-> 10495, cat |-> "Language"],
     [name |-> "Supplemental Arrows-B", start |-> 10496, end |-> 10623, cat |-> "Arrows"],
     [name |-> "Misc Mathematical Symbols-B", start |-> 10624, end |-> 10751, cat |-> "Math"],
     [name |-> "Supplemental Math Operators", start |-> 10752, end |-> 11007, cat |-> "Math"],
     [name |-> "Misc Symbols and Arrows", start |-> 11008, end |-> 11263, cat |-> "Arrows"],
     [name |-> "CJK Radicals Supplement", start |-> 11904, end |-> 12031, cat |-> "East Asia"],
     [name |-> "Kangxi Radicals", start |-> 12032, end |-> 12255, cat |-> "East Asia"],
     [name |-> "Ideographic Description", start |-> 12272, end |-> 12287, cat |-> "East Asia"],
     [name |-> "CJK Symbols and Punctuation", start |-> 12288, end |-> 12351, cat |-> "East Asia"],
     [name |-> "Hiragana", start |-> 12352, end |-> 12447, cat |-> "East Asia"],
     [name |-> "Katakana", start |-> 12448, end |-> 12543, cat |-> "East Asia"],
     [name |-> "Bopomofo", start |-> 12544, end |-> 12591, cat |-> "East Asia"],
     [name |-> "Hangul Compatibility Jamo", start |-> 12592, end |-> 12687, cat |-> "East Asia"],
     [name |-> "Kanbun", start |-> 12688, end |-> 12703, cat |-> "East Asia"],
     [name |-> "Bopomofo Extended", start |-> 12704, end |-> 12735, cat |-> "East Asia"],
     [name |-> "CJK Strokes", start |-> 12736, end |-> 12783, cat |-> "East Asia"],
     [name |-> "Katakana Phonetic Ext", start |-> 12784, end |-> 12799, cat |-> "East Asia"],
     [name |-> "Enclosed CJK Letters", start |-> 12800, end |-> 13055, cat |-> "East Asia"],
     [name |-> "CJK Compatibility", start |-> 13056, end |-> 13311, cat |-> "East Asia"],
     [name |-> "CJK Unified Ideographs Ext-A", start |-> 13312, end |-> 19903, cat |-> "East Asia"],
     [name |-> "Hexagram Symbols", start |-> 19904, end |-> 19967, cat |-> "Symbols"],
     [name |-> "CJK Unified Ideographs", start |-> 19968, end |-> 40959, cat |-> "East Asia"],
     [name |-> "Yi Syllables", start |-> 40960, end |-> 42127, cat |-> "East Asia"],
     [name |-> "Yi Radicals", start |-> 42128, end |-> 42191, cat |-> "East Asia"],
     [name |-> "Hangul Syllables", start |-> 44032, end |-> 55215, cat |-> "East Asia"],
     [name |-> "Private Use Area", start |-> 57344, end |-> 63743, cat |-> "Other"],
     [name |-> "CJK Compatibility Ideographs", start |-> 63744, end |-> 64255, cat |-> "East Asia"],
     [name |-> "Alphabetic Presentation Forms", start |-> 64256, end |-> 64335, cat |-> "Symbols"],
     [name |-> "Arabic Presentation Forms-A", start |-> 64336, end |-> 65023, cat |-> "Middle East"],
     [name |-> "Variation Selectors", start |-> 65024, end |-> 65039, cat |-> "Tech"],
     [name |-> "Vertical Forms", start |-> 65040, end |-> 65055, cat |-> "Tech"],
     [name |-> "Combining Half Marks", start |-> 65056, end |-> 65071, cat |-> "Symbols"],
     [name |-> "CJK Compatibility Forms", start |-> 65072, end |-> 65103, cat |-> "East Asia"],
     [name |-> "Small Form Variants", start |-> 65104, end |-> 65135, cat |-> "Symbols"],
     [name |-> "Arabic Presentation Forms-B", start |-> 65136, end |-> 65279, cat |-> "Middle East"],
     [name |-> "Halfwidth and Fullwidth Forms", start |-> 65280, end |-> 65519, cat |-> "East Asia"],
     [name |-> "Specials", start |-> 65520, end |-> 65535, cat |-> "Tech"],
     [name |-> "Linear B Syllabary", start |-> 65536, end |-> 65663, cat |-> "Historic"],
     [name |-> "Ancient Greek Numbers", start |-> 65856, end |-> 65935, cat |-> "Historic"],
     [name |-> "Phaistos Disc", start |-> 66000, end |-> 66047, cat |-> "Historic"],
     [name |-> "Mahjong Tiles", start |-> 126976, end |-> 127023, cat |-> "Game"],
     [name |-> "Domino Tiles", start |-> 127024, end |-> 127135, cat |-> "Game"],
     [name |-> "Playing Cards", start |-> 127136, end |-> 127231, cat |-> "Game"],
     [name |-> "Enclosed Alphanumeric Suppl", start |-> 127232, end |-> 127487, cat |-> "Symbols"],
     [name |-> "Enclosed Ideographic Suppl", start |-> 127488, end |-> 127743, cat |-> "East Asia"],
     [name |-> "Misc Symbols and Pictographs", start |-> 127744, end |-> 128511, cat |-> "Emoji"],
     [name |-> "Emoticons (Emoji)", start |-> 128512, end |-> 128591, cat |-> "Emoji"],
     [name |-> "Ornamental Dingbats", start |-> 128592, end |-> 128639, cat |-> "Symbols"],
     [name |-> "Transport and Map Symbols", start |-> 128640, end |-> 128767, cat |-> "Emoji"],
     [name |-> "Alchemical Symbols", start |-> 128768, end |-> 128895, cat |-> "Symbols"],
     [name |-> "Geometric Shapes Extended", start |-> 128896, end |-> 129023, cat |-> "Shapes"],
     [name |-> "Supplemental Arrows-C", start |-> 129024, end |-> 129279, cat |-> "Arrows"],
     [name |-> "Supplemental Symbols and Pictographs", start |-> 129280, end |-> 129535, cat |-> "Emoji"],
     [name |-> "Chess Symbols", start |-> 129536, end |-> 129647, cat |-> "Game"],
     [name |-> "Symbols and Pictographs Extended-A", start |-> 129648, end |-> 129791, cat |-> "Emoji"] >>

UNICODE_BLOCKS_RAW ==
  << [name |-> "Basic Latin (ASCII)", start |-> 0, end |-> 127, cat |-> "Latin"],
     [name |-> "Latin-1 Supplement", start |-> 128, end |-> 255, cat |-> "Latin"],
     [name |-> "Latin Extended-A", start |-> 256, end |-> 383, cat |-> "Latin"],
     [name |-> "Latin Extended-B", start |-> 384, end |-> 591, cat |-> "Latin"],
     [name |-> "IPA Extensions", start |-> 592, end |-> 687, cat |-> "Latin"],
     [name |-> "Spacing Modifier Letters", start |-> 688, end |-> 767, cat |-> "Latin"],
     [name |-> "Combining Diacritical Marks", start |-> 768, end |-> 879, cat |-> "Latin"],
     [name |-> "Greek and Coptic", start |-> 880, end |-> 1023, cat |-> "European"],
     [name |-> "Cyrillic", start |-> 1024, end |-> 1279, cat |-> "European"],
     [name |-> "Cyrillic Supplement", start |-> 1280, end |-> 1327, cat |-> "European"],
     [name |-> "Armenian", start |-> 1328, end |-> 1423, cat |-> "European"],
     [name |-> "Hebrew", start |-> 1424, end |-> 1535, cat |-> "Middle East"],
     [name |-> "Arabic", start |-> 1536, end |-> 1791, cat |-> "Middle East"],
     [name |-> "Syriac", start |-> 1792, end |-> 1871, cat |-> "Middle East"],
     [name |-> "Arabic Supplement", start |-> 1872, end |-> 1919, cat |-> "Middle East"],
     [name |-> "Thaana", start |-> 1920, end |-> 1983, cat |-> "Middle East"],
     [name |-> "NKo", start |-> 1984, end |-> 2047, cat |-> "Africa"],
     [name |-> "Devanagari", start |-> 2304, end |-> 2431, cat |-> "South Asia"],
     [name |-> "Bengali", start |-> 2432, end |-> 2559, cat |-> "South Asia"],
     [name |-> "Gurmukhi", start |-> 2560, end |-> 2687, cat |-> "South Asia"],
     [name |-> "Gujarati", start |-> 2688, end |-> 2815, cat |-> "South Asia"],
     [name |-> "Oriya", start |-> 2816, end |-> 2943, cat |-> "South Asia"],
     [name |-> "Tamil", start |-> 2944, end |-> 3071, cat |-> "South Asia"],
     [name |-> "Telugu", start |-> 3072, end |-> 3199, cat |-> "South Asia"],
     [name |-> "Kannada", start |-> 3200, end |-> 3327, cat |-> "South Asia"],
     [name |-> "Malayalam", start |-> 3328, end |-> 3455, cat |-> "South Asia"],
     [name |-> "Sinhala", start |-> 3456, end |-> 3583, cat |-> "South Asia"],
     [name |-> "Thai", start |-> 3584, end |-> 3711, cat |-> "SE Asia"],
     [name |-> "Lao", start |-> 3712, end |-> 3839, cat |-> "SE Asia"],
     [name |-> "Tibetan", start |-> 3840, end |-> 4095, cat |-> "SE Asia"],
     [name |-> "Myanmar", start |-> 4096, end |-> 4255, cat |-> "SE Asia"],
     [name |-> "Georgian", start |-> 4256, end |-> 4351, cat |-> "European"],
     [name |-> "Hangul Jamo", start |-> 4352, end |-> 4607, cat |-> "East Asia"],
     [name |-> "Ethiopic", start |-> 4608, end |-> 4991, cat |-> "Africa"],
     [name |-> "Cherokee", start |-> 5024, end |-> 5119, cat |-> "American"],
     [name |-> "Unified Canadian Aboriginal", start |-> 5120, end |-> 5759, cat |-> "American"],
     [name |-> "Ogham", start |-> 5760, end |-> 5791, cat |-> "Historic"],
     [name |-> "Runic", start |-> 5792, end |-> 5887, cat |-> "Historic"],
     [name |-> "Tagalog", start |-> 5888, end |-> 5919, cat |-> "SE Asia"],
     [name |-> "Khmer", start |-> 6016, end |-> 6143, cat |-> "SE Asia"],
     [name |-> "Mongolian", start |-> 6144, end |-> 6319, cat |-> "East Asia"],
     [name |-> "Phonetic Extensions", start |-> 7424, end |-> 7551, cat |-> "Language"],
     [name |-> "Latin Extended Additional", start |-> 7680, end |-> 7935, cat |-> "Latin"],
     [name |-> "Greek Extended", start |-> 7936, end |-> 8191, cat |-> "European"],
     [name |-> "General Punctuation", start |-> 8192, end |-> 8303, cat |-> "Symbols"],
     [name |-> "Superscripts and Subscripts", start |-> 8304, end |-> 8351, cat |-> "Symbols"],
     [name |-> "Currency Symbols", start |-> 8352, end |-> 8399, cat |-> "Symbols"],
     [name |-> "Combining Diacritical Marks for Symbols", start |-> 8400, end |-> 8447, cat |-> "Symbols"],
     [name |-> "Letterlike Symbols", start |-> 8448, end |-> 8527, cat |-> "Symbols"],
     [name |-> "Number Forms", start |-> 8528, end |-> 8591, cat |-> "Symbols"],
     [name |-> "Arrows", start |-> 8592, end |-> 8703, cat |-> "Arrows"],
     [name |-> "Mathematical Operators", start |-> 8704, end |-> 8959, cat |-> "Math"],
     [name |-> "Miscellaneous Technical", start |-> 8960, end |-> 9215, cat |-> "Tech"],
     [name |-> "Control Pictures", start |-> 9216, end |-> 9279, cat |-> "Tech"],
     [name |-> "OCR", start |-> 9280, end |-> 9311, cat |-> "Tech"],
     [name |-> "Enclosed Alphanumerics", start |-> 9312, end |-> 9471, cat |-> "Symbols"],
     [name |-> "Box Drawing", start |-> 9472, end |-> 9599, cat |-> "Shapes"],
     [name |-> "Block Elements", start |-> 9600, end |-> 9631, cat |-> "Shapes"],
     [name |-> "Geometric Shapes", start |-> 9632, end |-> 9727, cat |-> "Shapes"],
     [name |-> "Miscellaneous Symbols", start |-> 9728, end |-> 9983, cat |-> "Symbols"],
     [name |-> "Dingbats", start |-> 9984, end |-> 10175, cat |-> "Symbols"],
     [name |-> "Misc Mathematical Symbols-A", start |-> 10176, end |-> 10223, cat |-> "Math"],
     [name |-> "Supplemental Arrows-A", start |-> 10224, end |-> 10239, cat |-> "Arrows"],
     [name |-> "Braille Patterns", start |-> 10240, end |-> 10495, cat |-> "Language"],
     [name |-> "Supplemental Arrows-B", start |-> 10496, end |-> 10623, cat |-> "Arrows"],
     [name |-> "Misc Mathematical Symbols-B", start |-> 10624, end |-> 10751, cat |-> "Math"],
     [name |-> "Supplemental Math Operators", start |-> 10752, end |-> 11007, cat |-> "Math"],
     [name |-> "Misc Symbols and Arrows", start |-> 11008, end |-> 11263, cat |-> "Arrows"],
     [name |-> "CJK Radicals Supplement", start |-> 11904, end |-> 12031, cat |-> "East Asia"],
     [name |-> "Kangxi Radicals", start |-> 12032, end |-> 12255, cat |-> "East Asia"],
     [name |-> "Ideographic Description", start |-> 12272, end |-> 12287, cat |-> "East Asia"],
     [name |-> "CJK Symbols and Punctuation", start |-> 12288, end |-> 12351, cat |-> "East Asia"],
     [name |-> "Hiragana", start |-> 12352, end |-> 12447, cat |-> "East Asia"],
     [name |-> "Katakana", start |-> 12448, end |-> 12543, cat |-> "East Asia"],
     [name |-> "Bopomofo", start |-> 12544, end |-> 12591, cat |-> "East Asia"],
     [name |-> "Hangul Compatibility Jamo", start |-> 12592, end |-> 12687, cat |-> "East Asia"],
     [name |-> "Kanbun", start |-> 12688, end |-> 12703, cat |-> "East Asia"],
     [name |-> "Bopomofo Extended", start |-> 12704, end |-> 12735, cat |-> "East Asia"],
     [name |-> "CJK Strokes", start |-> 12736, end |-> 12783, cat |-> "East Asia"],
     [name |-> "Katakana Phonetic Ext", start |-> 12784, end |-> 12799, cat |-> "East Asia"],
     [name |-> "Enclosed CJK Letters", start |-> 12800, end |-> 13055, cat |-> "East Asia"],
     [name |-> "CJK Compatibility", start |-> 13056, end |-> 13311, cat |-> "East Asia"],
     [name |-> "CJK Unified Ideographs Ext-A", start |-> 13312, end |-> 19903, cat |-> "East Asia"],
     [name |-> "Hexagram Symbols", start |-> 19904, end |-> 19967, cat |-> "Symbols"],
     [name |-> "CJK Unified Ideographs", start |-> 19968, end |-> 40959, cat |-> "East Asia"],
     [name |-> "Yi Syllables", start |-> 40960, end |-> 42127, cat |-> "East Asia"],
     [name |-> "Yi Radicals", start |-> 42128, end |-> 42191, cat |-> "East Asia"],
     [name |-> "Hangul Syllables", start |-> 44032, end |-> 55215, cat |-> "East Asia"],
     [name |-> "Private Use Area", start |-> 57344, end |-> 63743, cat |-> "Other"],
     [name |-> "CJK Compatibility Ideographs", start |-> 63744, end |-> 64255, cat |-> "East Asia"],
     [name |-> "Alphabetic Presentation Forms", start |-> 64256, end |-> 64335, cat |-> "Symbols"],
     [name |-> "Arabic Presentation Forms-A", start |-> 64336, end |-> 65023, cat |-> "Middle East"],
     [name |-> "Variation Selectors", start |-> 65024, end |-> 65039, cat |-> "Tech"],
     [name |-> "Vertical Forms", start |-> 65040, end |-> 65055, cat |-> "Tech"],
     [name |-> "Combining Half Marks", start |-> 65056, end |-> 65071, cat |-> "Symbols"],
     [name |-> "CJK Compatibility Forms", start |-> 65072, end |-> 65103, cat |-> "East Asia"],
     [name |-> "Small Form Variants", start |-> 65104, end |-> 65135, cat |-> "Symbols"],
     [name |-> "Arabic Presentation Forms-B", start |-> 65136, end |-> 65279, cat |-> "Middle East"],
     [name |-> "Halfwidth and Fullwidth Forms", start |-> 65280, end |-> 65519, cat |-> "East Asia"],
     [name |-> "Specials", start |-> 65520, end |-> 65535, cat |-> "Tech"],
     [name |-> "Linear B Syllabary", start |-> 65536, end |-> 65663, cat |-> "Historic"],
     [name |-> "Ancient Greek Numbers", start |-> 65856, end |-> 65935, cat |-> "Historic"],
     [name |-> "Phaistos Disc", start |-> 66000, end |-> 66047, cat |-> "Historic"],
     [name |-> "Mahjong Tiles", start |-> 126976, end |-> 127023, cat |-> "Game"],
     [name |-> "Domino Tiles", start |-> 127024, end |-> 127135, cat |-> "Game"],
     [name |-> "Playing Cards", start |-> 127136, end |-> 127231, cat |-> "Game"],
     [name |-> "Enclosed Alphanumeric Suppl", start |-> 127232, end |-> 127487, cat |-> "Symbols"],
     [name |-> "Enclosed Ideographic Suppl", start |-> 127488, end |-> 127743, cat |-> "East Asia"],
     [name |-> "Misc Symbols and Pictographs", start |-> 127744, end |-> 128511, cat |-> "Emoji"],
     [name |-> "Emoticons (Emoji)", start |-> 128512, end |-> 128591, cat |-> "Emoji"],
     [name |-> "Ornamental Dingbats", start |-> 128592, end |-> 128639, cat |-> "Symbols"],
     [name |-> "Transport and Map Symbols", start |-> 128640, end |-> 128767, cat |-> "Emoji"],
     [name |-> "Alchemical Symbols", start |-> 128768, end |-> 128895, cat |-> "Symbols"],
     [name |-> "Geometric Shapes Extended", start |-> 128896, end |-> 129023, cat |-> "Shapes"],
     [name |-> "Supplemental Arrows-C", start |-> 129024, end |-> 129279, cat |-> "Arrows"],
     [name |-> "Supplemental Symbols and Pictographs", start |-> 129280, end |-> 129535, cat |-> "Emoji"],
     [name |-> "Chess Symbols", start |-> 129536, end |-> 129647, cat |-> "Game"],
     [name |-> "Symbols and Pictographs Extended-A", start |-> 129648, end |-> 129791, cat |-> "Emoji"] >>

\* the characters of every block name and category of the table
StringTable ==
  << [str |-> "Basic Latin (ASCII)", chars |-> <<"B", "a", "s", "i", "c", " ", "L", "a", "t", "i", "n", " ", "(", "A", "S", "C", "I", "I", ")">>],
     [str |-> "Latin", chars |-> <<"L", "a", "t", "i", "n">>],
     [str |-> "Latin-1 Supplement", chars |-> <<"L", "a", "t", "i", "n", "-", "1", " ", "S", "u", "p", "p", "l", "e", "m", "e", "n", "t">>],
     [str |-> "Latin Extended-A", chars |-> <<"L", "a", "t", "i", "n", " ", "E", "x", "t", "e", "n", "d", "e", "d", "-", "A">>],
     [str |-> "Latin Extended-B", chars |-> <<"L", "a", "t", "i", "n", " ", "E", "x", "t", "e", "n", "d", "e", "d", "-", "B">>],
     [str |-> "IPA Extensions", chars |-> <<"I", "P", "A", " ", "E", "x", "t", "e", "n", "s", "i", "o", "n", "s">>],
     [str |-> "Spacing Modifier Letters", chars |-> <<"S", "p", "a", "c", "i", "n", "g", " ", "M", "o", "d", "i", "f", "i", "e", "r", " ", "L", "e", "t", "t", "e", "r", "s">>],
     [str |-> "Combining Diacritical Marks", chars |-> <<"C", "o", "m", "b", "i", "n", "i", "n", "g", " ", "D", "i", "a", "c", "r", "i", "t", "i", "c", "a", "l", " ", "M", "a", "r", "k", "s">>],
     [str |-> "Greek and Coptic", chars |-> <<"G", "r", "e", "e", "k", " ", "a", "n", "d", " ", "C", "o", "p", "t", "i", "c">>],
     [str |-> "European", chars |-> <<"E", "u", "r", "o", "p", "e", "a", "n">>],
     [str |-> "Cyrillic", chars |-> <<"C", "y", "r", "i", "l", "l", "i", "c">>],
     [str |-> "Cyrillic Supplement", chars |-> <<"C", "y", "r", "i", "l", "l", "i", "c", " ", "S", "u", "p", "p", "l", "e", "m", "e", "n", "t">>],
     [str |-> "Armenian", chars |-> <<"A", "r", "m", "e", "n", "i", "a", "n">>],
     [str |-> "Hebrew", chars |-> <<"H", "e", "b", "r", "e", "w">>],
     [str |-> "Middle East", chars |-> <<"M", "i", "d", "d", "l", "e", " ", "E", "a", "s", "t">>],
     [str |-> "Arabic", chars |-> <<"A", "r", "a", "b", "i", "c">>],
     [str |-> "Syriac", chars |-> <<"S", "y", "r", "i", "a", "c">>],
     [str |-> "Arabic Supplement", chars |-> <<"A", "r", "a", "b", "i", "c", " ", "S", "u", "p", "p", "l", "e", "m", "e", "n", "t">>],
     [str |-> "Thaana", chars |-> <<"T", "h", "a", "a", "n", "a">>],
     [str |-> "NKo", chars |-> <<"N", "K", "o">>],
     [str |-> "Africa", chars |-> <<"A", "f", "r", "i", "c", "a">>],
     [str |-> "Devanagari", chars |-> <<"D", "e", "v", "a", "n", "a", "g", "a", "r", "i">>],
     [str |-> "South Asia", chars |-> <<"S", "o", "u", "t", "h", " ", "A", "s", "i", "a">>],
     [str |-> "Bengali", chars |-> <<"B", "e", "n", "g", "a", "l", "i">>],
     [str |-> "Gurmukhi", chars |-> <<"G", "u", "r", "m", "u", "k", "h", "i">>],
     [str |-> "Gujarati", chars |-> <<"G", "u", "j", "a", "r", "a", "t", "i">>],
     [str |-> "Oriya", chars |-> <<"O", "r", "i", "y", "a">>],
     [str |-> "Tamil", chars |-> <<"T", "a", "m", "i", "l">>],
     [str |-> "Telugu", chars |-> <<"T", "e", "l", "u", "g", "u">>],
     [str |-> "Kannada", chars |-> <<"K", "a", "n", "n", "a", "d", "a">>],
     [str |-> "Malayalam", chars |-> <<"M", "a", "l", "a", "y", "a", "l", "a", "m">>],
     [str |-> "Sinhala", chars |-> <<"S", "i", "n", "h", "a", "l", "a">>],
     [str |-> "Thai", chars |-> <<"T", "h", "a", "i">>],
     [str |-> "SE Asia", chars |-> <<"S", "E", " ", "A", "s", "i", "a">>],
     [str |-> "Lao", chars |-> <<"L", "a", "o">>],
     [str |-> "Tibetan", chars |-> <<"T", "i", "b", "e", "t", "a", "n">>],
     [str |-> "Myanmar", chars |-> <<"M", "y", "a", "n", "m", "a", "r">>],
     [str |-> "Georgian", chars |-> <<"G", "e", "o", "r", "g", "i", "a", "n">>],
     [str |-> "Hangul Jamo", chars |-> <<"H", "a", "n", "g", "u", "l", " ", "J", "a", "m", "o">>],
     [str |-> "East Asia", chars |-> <<"E", "a", "s", "t", " ", "A", "s", "i", "a">>],
     [str |-> "Ethiopic", chars |-> <<"E", "t", "h", "i", "o", "p", "i", "c">>],
     [str |-> "Cherokee", chars |-> <<"C", "h", "e", "r", "o", "k", "e", "e">>],
     [str |-> "American", chars |-> <<"A", "m", "e", "r", "i", "c", "a", "n">>],
     [str |-> "Unified Canadian Aboriginal", chars |-> <<"U", "n", "i", "f", "i", "e", "d", " ", "C", "a", "n", "a", "d", "i", "a", "n", " ", "A", "b", "o", "r", "i", "g", "i", "n", "a", "l">>],
     [str |-> "Ogham", chars |-> <<"O", "g", "h", "a", "m">>],
     [str |-> "Historic", chars |-> <<"H", "i", "s", "t", "o", "r", "i", "c">>],
     [str |-> "Runic", chars |-> <<"R", "u", "n", "i", "c">>],
     [str |-> "Tagalog", chars |-> <<"T", "a", "g", "a", "l", "o", "g">>],
     [str |-> "Khmer", chars |-> <<"K", "h", "m", "e", "r">>],
     [str |-> "Mongolian", chars |-> <<"M", "o", "n", "g", "o", "l", "i", "a", "n">>],
     [str |-> "Phonetic Extensions", chars |-> <<"P", "h", "o", "n", "e", "t", "i", "c", " ", "E", "x", "t", "e", "n", "s", "i", "o", "n", "s">>],
     [str |-> "Language", chars |-> <<"L", "a", "n", "g", "u", "a", "g", "e">>],
     [str |-> "Latin Extended Additional", chars |-> <<"L", "a", "t", "i", "n", " ", "E", "x", "t", "e", "n", "d", "e", "d", " ", "A", "d", "d", "i", "t", "i", "o", "n", "a", "l">>],
     [str |-> "Greek Extended", chars |-> <<"G", "r", "e", "e", "k", " ", "E", "x", "t", "e", "n", "d", "e", "d">>],
     [str |-> "General Punctuation", chars |-> <<"G", "e", "n", "e", "r", "a", "l", " ", "P", "u", "n", "c", "t", "u", "a", "t", "i", "o", "n">>],
     [str |-> "Symbols", chars |-> <<"S", "y", "m", "b", "o", "l", "s">>],
     [str |-> "Superscripts and Subscripts", chars |-> <<"S", "u", "p", "e", "r", "s", "c", "r", "i", "p", "t", "s", " ", "a", "n", "d", " ", "S", "u", "b", "s", "c", "r", "i", "p", "t", "s">>],
     [str |-> "Currency Symbols", chars |-> <<"C", "u", "r", "r", "e", "n", "c", "y", " ", "S", "y", "m", "b", "o", "l", "s">>],
     [str |-> "Combining Diacritical Marks for Symbols", chars |-> <<"C", "o", "m", "b", "i", "n", "i", "n", "g", " ", "D", "i", "a", "c", "r", "i", "t", "i", "c", "a", "l", " ", "M", "a", "r", "k", "s", " ", "f", "o", "r", " ", "S", "y", "m", "b", "o", "l", "s">>],
     [str |-> "Letterlike Symbols", chars |-> <<"L", "e", "t", "t", "e", "r", "l", "i", "k", "e", " ", "S", "y", "m", "b", "o", "l", "s">>],
     [str |-> "Number Forms", chars |-> <<"N", "u", "m", "b", "e", "r", " ", "F", "o", "r", "m", "s">>],
     [str |-> "Arrows", chars |-> <<"A", "r", "r", "o", "w", "s">>],
     [str |-> "Mathematical Operators", chars |-> <<"M", "a", "t", "h", "e", "m", "a", "t", "i", "c", "a", "l", " ", "O", "p", "e", "r", "a", "t", "o", "r", "s">>],
     [str |-> "Math", chars |-> <<"M", "a", "t", "h">>],
     [str |-> "Miscellaneous Technical", chars |-> <<"M", "i", "s", "c", "e", "l", "l", "a", "n", "e", "o", "u", "s", " ", "T", "e", "c", "h", "n", "i", "c", "a", "l">>],
     [str |-> "Tech", chars |-> <<"T", "e", "c", "h">>],
     [str |-> "Control Pictures", chars |-> <<"C", "o", "n", "t", "r", "o", "l", " ", "P", "i", "c", "t", "u", "r", "e", "s">>],
     [str |-> "OCR", chars |-> <<"O", "C", "R">>],
     [str |-> "Enclosed Alphanumerics", chars |-> <<"E", "n", "c", "l", "o", "s", "e", "d", " ", "A", "l", "p", "h", "a", "n", "u", "m", "e", "r", "i", "c", "s">>],
     [str |-> "Box Drawing", chars |-> <<"B", "o", "x", " ", "D", "r", "a", "w", "i", "n", "g">>],
     [str |-> "Shapes", chars |-> <<"S", "h", "a", "p", "e", "s">>],
     [str |-> "Block Elements", chars |-> <<"B", "l", "o", "c", "k", " ", "E", "l", "e", "m", "e", "n", "t", "s">>],
     [str |-> "Geometric Shapes", chars |-> <<"G", "e", "o", "m", "e", "t", "r", "i", "c", " ", "S", "h", "a", "p", "e", "s">>],
     [str |-> "Miscellaneous Symbols", chars |-> <<"M", "i", "s", "c", "e", "l", "l", "a", "n", "e", "o", "u", "s", " ", "S", "y", "m", "b", "o", "l", "s">>],
     [str |-> "Dingbats", chars |-> <<"D", "i", "n", "g", "b", "a", "t", "s">>],
     [str |-> "Misc Mathematical Symbols-A", chars |-> <<"M", "i", "s", "c", " ", "M", "a", "t", "h", "e", "m", "a", "t", "i", "c", "a", "l", " ", "S", "y", "m", "b", "o", "l", "s", "-", "A">>],
     [str |-> "Supplemental Arrows-A", chars |-> <<"S", "u", "p", "p", "l", "e", "m", "e", "n", "t", "a", "l", " ", "A", "r", "r", "o", "w", "s", "-", "A">>],
     [str |-> "Braille Patterns", chars |-> <<"B", "r", "a", "i", "l", "l", "e", " ", "P", "a", "t", "t", "e", "r", "n", "s">>],
     [str |-> "Supplemental Arrows-B", chars |-> <<"S", "u", "p", "p", "l", "e", "m", "e", "n", "t", "a", "l", " ", "A", "r", "r", "o", "w", "s", "-", "B">>],
     [str |-> "Misc Mathematical Symbols-B", chars |-> <<"M", "i", "s", "c", " ", "M", "a", "t", "h", "e", "m", "a", "t", "i", "c", "a", "l", " ", "S", "y", "m", "b", "o", "l", "s", "-", "B">>],
     [str |-> "Supplemental Math Operators", chars |-> <<"S", "u", "p", "p", "l", "e", "m", "e", "n", "t", "a", "l", " ", "M", "a", "t", "h", " ", "O", "p", "e", "r", "a", "t", "o", "r", "s">>],
     [str |-> "Misc Symbols and Arrows", chars |-> <<"M", "i", "s", "c", " ", "S", "y", "m", "b", "o", "l", "s", " ", "a", "n", "d", " ", "A", "r", "r", "o", "w", "s">>],
     [str |-> "CJK Radicals Supplement", chars |-> <<"C", "J", "K", " ", "R", "a", "d", "i", "c", "a", "l", "s", " ", "S", "u", "p", "p", "l", "e", "m", "e", "n", "t">>],
     [str |-> "Kangxi Radicals", chars |-> <<"K", "a", "n", "g", "x", "i", " ", "R", "a", "d", "i", "c", "a", "l", "s">>],
     [str |-> "Ideographic Description", chars |-> <<"I", "d", "e", "o", "g", "r", "a", "p", "h", "i", "c", " ", "D", "e", "s", "c", "r", "i", "p", "t", "i", "o", "n">>],
     [str |-> "CJK Symbols and Punctuation", chars |-> <<"C", "J", "K", " ", "S", "y", "m", "b", "o", "l", "s", " ", "a", "n", "d", " ", "P", "u", "n", "c", "t", "u", "a", "t", "i", "o", "n">>],
     [str |-> "Hiragana", chars |-> <<"H", "i", "r", "a", "g", "a", "n", "a">>],
     [str |-> "Katakana", chars |-> <<"K", "a", "t", "a", "k", "a", "n", "a">>],
     [str |-> "Bopomofo", chars |-> <<"B", "o", "p", "o", "m", "o", "f", "o">>],
     [str |-> "Hangul Compatibility Jamo", chars |-> <<"H", "a", "n", "g", "u", "l", " ", "C", "o", "m", "p", "a", "t", "i", "b", "i", "l", "i", "t", "y", " ", "J", "a", "m", "o">>],
     [str |-> "Kanbun", chars |-> <<"K", "a", "n", "b", "u", "n">>],
     [str |-> "Bopomofo Extended", chars |-> <<"B", "o", "p", "o", "m", "o", "f", "o", " ", "E", "x", "t", "e", "n", "d", "e", "d">>],
     [str |-> "CJK Strokes", chars |-> <<"C", "J", "K", " ", "S", "t", "r", "o", "k", "e", "s">>],
     [str |-> "Katakana Phonetic Ext", chars |-> <<"K", "a", "t", "a", "k", "a", "n", "a", " ", "P", "h", "o", "n", "e", "t", "i", "c", " ", "E", "x", "t">>],
     [str |-> "Enclosed CJK Letters", chars |-> <<"E", "n", "c", "l", "o", "s", "e", "d", " ", "C", "J", "K", " ", "L", "e", "t", "t", "e", "r", "s">>],
     [str |-> "CJK Compatibility", chars |-> <<"C", "J", "K", " ", "C", "o", "m", "p", "a", "t", "i", "b", "i", "l", "i", "t", "y">>],
     [str |-> "CJK Unified Ideographs Ext-A", chars |-> <<"C", "J", "K", " ", "U", "n", "i", "f", "i", "e", "d", " ", "I", "d", "e", "o", "g", "r", "a", "p", "h", "s", " ", "E", "x", "t", "-", "A">>],
     [str |-> "Hexagram Symbols", chars |-> <<"H", "e", "x", "a", "g", "r", "a", "m", " ", "S", "y", "m", "b", "o", "l", "s">>],
     [str |-> "CJK Unified Ideographs", chars |-> <<"C", "J", "K", " ", "U", "n", "i", "f", "i", "e", "d", " ", "I", "d", "e", "o", "g", "r", "a", "p", "h", "s">>],
     [str |-> "Yi Syllables", chars |-> <<"Y", "i", " ", "S", "y", "l", "l", "a", "b", "l", "e", "s">>],
     [str |-> "Yi Radicals", chars |-> <<"Y", "i", " ", "R", "a", "d", "i", "c", "a", "l", "s">>],
     [str |-> "Hangul Syllables", chars |-> <<"H", "a", "n", "g", "u", "l", " ", "S", "y", "l", "l", "a", "b", "l", "e", "s">>],
     [str |-> "Private Use Area", chars |-> <<"P", "r", "i", "v", "a", "t", "e", " ", "U", "s", "e", " ", "A", "r", "e", "a">>],
     [str |-> "Other", chars |-> <<"O", "t", "h", "e", "r">>],
     [str |-> "CJK Compatibility Ideographs", chars |-> <<"C", "J", "K", " ", "C", "o", "m", "p", "a", "t", "i", "b", "i", "l", "i", "t", "y", " ", "I", "d", "e", "o", "g", "r", "a", "p", "h", "s">>],
     [str |-> "Alphabetic Presentation Forms", chars |-> <<"A", "l", "p", "h", "a", "b", "e", "t", "i", "c", " ", "P", "r", "e", "s", "e", "n", "t", "a", "t", "i", "o", "n", " ", "F", "o", "r", "m", "s">>],
     [str |-> "Arabic Presentation Forms-A", chars |-> <<"A", "r", "a", "b", "i", "c", " ", "P", "r", "e", "s", "e", "n", "t", "a", "t", "i", "o", "n", " ", "F", "o", "r", "m", "s", "-", "A">>],
     [str |-> "Variation Selectors", chars |-> <<"V", "a", "r", "i", "a", "t", "i", "o", "n", " ", "S", "e", "l", "e", "c", "t", "o", "r", "s">>],
     [str |-> "Vertical Forms", chars |-> <<"V", "e", "r", "t", "i", "c", "a", "l", " ", "F", "o", "r", "m", "s">>],
     [str |-> "Combining Half Marks", chars |-> <<"C", "o", "m", "b", "i", "n", "i", "n", "g", " ", "H", "a", "l", "f", " ", "M", "a", "r", "k", "s">>],
     [str |-> "CJK Compatibility Forms", chars |-> <<"C", "J", "K", " ", "C", "o", "m", "p", "a", "t", "i", "b", "i", "l", "i", "t", "y", " ", "F", "o", "r", "m", "s">>],
     [str |-> "Small Form Variants", chars |-> <<"S", "m", "a", "l", "l", " ", "F", "o", "r", "m", " ", "V", "a", "r", "i", "a", "n", "t", "s">>],
     [str |-> "Arabic Presentation Forms-B", chars |-> <<"A", "r", "a", "b", "i", "c", " ", "P", "r", "e", "s", "e", "n", "t", "a", "t", "i", "o", "n", " ", "F", "o", "r", "m", "s", "-", "B">>],
     [str |-> "Halfwidth and Fullwidth Forms", chars |-> <<"H", "a", "l", "f", "w", "i", "d", "t", "h", " ", "a", "n", "d", " ", "F", "u", "l", "l", "w", "i", "d", "t", "h", " ", "F", "o", "r", "m", "s">>],
     [str |-> "Specials", chars |-> <<"S", "p", "e", "c", "i", "a", "l", "s">>],
     [str |-> "Linear B Syllabary", chars |-> <<"L", "i", "n", "e", "a", "r", " ", "B", " ", "S", "y", "l", "l", "a", "b", "a", "r", "y">>],
     [str |-> "Ancient Greek Numbers", chars |-> <<"A", "n", "c", "i", "e", "n", "t", " ", "G", "r", "e", "e", "k", " ", "N", "u", "m", "b", "e", "r", "s">>],
     [str |-> "Phaistos Disc", chars |-> <<"P", "h", "a", "i", "s", "t", "o", "s", " ", "D", "i", "s", "c">>],
     [str |-> "Mahjong Tiles", chars |-> <<"M", "a", "h", "j", "o", "n", "g", " ", "T", "i", "l", "e", "s">>],
     [str |-> "Game", chars |-> <<"G", "a", "m", "e">>],
     [str |-> "Domino Tiles", chars |-> <<"D", "o", "m", "i", "n", "o", " ", "T", "i", "l", "e", "s">>],
     [str |-> "Playing Cards", chars |-> <<"P", "l", "a", "y", "i", "n", "g", " ", "C", "a", "r", "d", "s">>],
     [str |-> "Enclosed Alphanumeric Suppl", chars |-> <<"E", "n", "c", "l", "o", "s", "e", "d", " ", "A", "l", "p", "h", "a", "n", "u", "m", "e", "r", "i", "c", " ", "S", "u", "p", "p", "l">>],
     [str |-> "Enclosed Ideographic Suppl", chars |-> <<"E", "n", "c", "l", "o", "s", "e", "d", " ", "I", "d", "e", "o", "g", "r", "a", "p", "h", "i", "c", " ", "S", "u", "p", "p", "l">>],
     [str |-> "Misc Symbols and Pictographs", chars |-> <<"M", "i", "s", "c", " ", "S", "y", "m", "b", "o", "l", "s", " ", "a", "n", "d", " ", "P", "i", "c", "t", "o", "g", "r", "a", "p", "h", "s">>],
     [str |-> "Emoji", chars |-> <<"E", "m", "o", "j", "i">>],
     [str |-> "Emoticons (Emoji)", chars |-> <<"E", "m", "o", "t", "i", "c", "o", "n", "s", " ", "(", "E", "m", "o", "j", "i", ")">>],
     [str |-> "Ornamental Dingbats", chars |-> <<"O", "r", "n", "a", "m", "e", "n", "t", "a", "l", " ", "D", "i", "n", "g", "b", "a", "t", "s">>],
     [str |-> "Transport and Map Symbols", chars |-> <<"T", "r", "a", "n", "s", "p", "o", "r", "t", " ", "a", "n", "d", " ", "M", "a", "p", " ", "S", "y", "m", "b", "o", "l", "s">>],
     [str |-> "Alchemical Symbols", chars |-> <<"A", "l", "c", "h", "e", "m", "i", "c", "a", "l", " ", "S", "y", "m", "b", "o", "l", "s">>],
     [str |-> "Geometric Shapes Extended", chars |-> <<"G", "e", "o", "m", "e", "t", "r", "i", "c", " ", "S", "h", "a", "p", "e", "s", " ", "E", "x", "t", "e", "n", "d", "e", "d">>],
     [str |-> "Supplemental Arrows-C", chars |-> <<"S", "u", "p", "p", "l", "e", "m", "e", "n", "t", "a", "l", " ", "A", "r", "r", "o", "w", "s", "-", "C">>],
     [str |-> "Supplemental Symbols and Pictographs", chars |-> <<"S", "u", "p", "p", "l", "e", "m", "e", "n", "t", "a", "l", " ", "S", "y", "m", "b", "o", "l", "s", " ", "a", "n", "d", " ", "P", "i", "c", "t", "o", "g", "r", "a", "p", "h", "s">>],
     [str |-> "Chess Symbols", chars |-> <<"C", "h", "e", "s", "s", " ", "S", "y", "m", "b", "o", "l", "s">>],
     [str |-> "Symbols and Pictographs Extended-A", chars |-> <<"S", "y", "m", "b", "o", "l", "s", " ", "a", "n", "d", " ", "P", "i", "c", "t", "o", "g", "r", "a", "p", "h", "s", " ", "E", "x", "t", "e", "n", "d", "e", "d", "-", "A">>] >>

CharsOf ==
  [str \in {StringTable[i].str : i \in DOMAIN StringTable} |->
     StringTable[CHOOSE i \in DOMAIN StringTable : StringTable[i].str = str].chars]

Digits == {"0", "1", "2", "3", "4", "5", "6", "7", "8", "9"}

toLowerCase(s) == [i \in 1..Len(s) |-> toLowerCaseChar(s[i])]

\* the class [a-z0-9]
IsSlugChar(c) == c \in Range(LowerLetters) \cup Digits

RECURSIVE DropNonSlugChars(_)
DropNonSlugChars(s) ==
  IF s # <<>> /\ ~IsSlugChar(Head(s)) THEN DropNonSlugChars(Tail(s)) ELSE s

\* s.replace(/[^a-z0-9]+/g, "-"): every maximal run becomes one hyphen
RECURSIVE replaceNonSlugRuns(_)
replaceNonSlugRuns(s) ==
  IF s = <<>> THEN <<>>
  ELSE IF IsSlugChar(Head(s)) THEN <<Head(s)>> \o replaceNonSlugRuns(Tail(s))
  ELSE <<"-">> \o replaceNonSlugRuns(DropNonSlugChars(s))

\* s.replace(/(^-|-$)/g, ""): a hyphen at the start and one at the end go
trimHyphens(s) ==
  LET s1 == IF s # <<>> /\ Head(s) = "-" THEN Tail(s) ELSE s
  IN IF s1 # <<>> /\ s1[Len(s1)] = "-" THEN SubSeq(s1, 1, Len(s1) - 1) ELSE s1

createSlug(name) == trimHyphens(replaceNonSlugRuns(toLowerCase(name)))

\* UNICODE_BLOCKS_RAW.map(block => ({...block, slug: createSlug(block.name)}))
LoadedBlocks ==
  [i \in DOMAIN UNICODE_BLOCKS_RAW |->
     [name |-> UNICODE_BLOCKS_RAW[i].name,
      start |-> UNICODE_BLOCKS_RAW[i].start,
      end |-> UNICODE_BLOCKS_RAW[i].end,
      cat |-> UNICODE_BLOCKS_RAW[i].cat,
      slug |-> createSlug(CharsOf[UNICODE_BLOCKS_RAW[i].name])]]

\* [...new Set(values)]: a Set keeps insertion order and ignores a value
\* it already holds, so the spread lists each value at its first position
Distinct(values) ==
  LET firsts == {i \in DOMAIN values : \A j \in 1..(i - 1) : values[j] # values[i]}
      nth(k) == CHOOSE i \in firsts : Cardinality({j \in firsts : j < i}) = k - 1
  IN [k \in 1..Cardinality(firsts) |-> values[nth(k)]]

LoadedCategories == Distinct([i \in DOMAIN LoadedBlocks |-> LoadedBlocks[i].cat])

\* a code point lookup has not run / found nothing / found the block at index i
NotLooked == [called |-> FALSE, found |-> FALSE, index |-> 0]
Undefined == [called |-> TRUE, found |-> FALSE, index |-> 0]
Found(i) == [called |-> TRUE, found |-> TRUE, index |-> i]

\* Array.prototype.find with the range predicate: the first index from i on
\* whose block satisfies it, 0 when there is none
FindContaining(blocks, cp, i) ==
  LET hits == {j \in i..Len(blocks) : cp >= blocks[j].start /\ cp <= blocks[j].end}
  IN IF hits = {} THEN 0 ELSE Min(hits)

FindContainingExclusive(blocks, cp, i) ==
  LET hits == {j \in i..Len(blocks) : cp >= blocks[j].start /\ cp < blocks[j].end}
  IN IF hits = {} THEN 0 ELSE Min(hits)

\* the range predicate with the end bound excluded
getBlockByCodePoint_EndExclusive(cp) ==
  LET i == FindContainingExclusive(UNICODE_BLOCKS, cp, 1)
  IN IF i = 0 THEN Undefined ELSE Found(i)

getBlockByCodePoint(cp) ==
  LET i == FindContaining(UNICODE_BLOCKS, cp, 1)
  IN IF i = 0 THEN Undefined ELSE Found(i)

\* code points around every bound of the table, inside every block, and
\* outside [0, 0x10ffff]
CodePointInputs ==
  UNION {{b.start - 1, b.start, (b.start + b.end) \div 2, b.end, b.end + 1} :
           b \in Range(UNICODE_BLOCKS_RAW)}
    \cup {0 - 1, MAX_CODE_POINT, MAX_CODE_POINT + 1}

IdleCatalog ==
  /\ UNICODE_BLOCKS = LoadedBlocks
  /\ codePoint = 0
  /\ foundBlock = NotLooked

GetBlockByCodePoint ==
  /\ ~foundBlock.called
  /\ foundBlock' = getBlockByCodePoint(codePoint)
  /\ UNCHANGED <<UNICODE_BLOCKS, codePoint, parseVars, namesVars, opsVars, buildVars, uiVars>>

----------------------------------------------------------------------------
(* Name files: what the builder stores, what the file system holds *)

NameSlugs == {"basic-latin-ascii", "emoticons-emoji"}

\* <char> elements of the UCD that fall in each block: cp attribute and name
UcdRecordsOfBlock ==
  [slug \in NameSlugs |->
     IF slug = "basic-latin-ascii"
       THEN { [cp |-> <<"0", "0", "4", "1">>, na |-> "LATIN CAPITAL LETTER A"],
              [cp |-> <<"0", "0", "7", "A">>, na |-> "LATIN SMALL LETTER Z"] }
       ELSE { [cp |-> <<"1", "F", "6", "0", "0">>, na |-> "GRINNING FACE"] }]

\* parseUCDXml: blockData[cpMatch[1].toUpperCase()] = name
StoredKey(cpAttr) == toUpperCase(cpAttr)

\* JSON values a names file can hold
EmptyEntries == [k \in {} |-> ""]
Object(entries) == [kind |-> "object", entries |-> entries]
EmptyObject == Object(EmptyEntries)
JsonNull == [kind |-> "null", entries |-> EmptyEntries]
\* the array ["x"]: its only own index property is "0"
JsonArray == [kind |-> "array", entries |-> [k \in {<<"0">>} |-> "x"]]

\* the object the builder writes for a block
EmittedObject(slug) ==
  Object([k \in {StoredKey(r.cp) : r \in UcdRecordsOfBlock[slug]} |->
            (CHOOSE r \in UcdRecordsOfBlock[slug] : StoredKey(r.cp) = k).na])

Absent == [state |-> "absent", json |-> JsonNull]
Unreadable == [state |-> "unreadable", json |-> JsonNull]
InvalidJson == [state |-> "invalid", json |-> JsonNull]
Json(v) == [state |-> "json", json |-> v]

FileStates(slug) ==
  {Absent, Unreadable, InvalidJson, Json(EmittedObject(slug)), Json(JsonNull), Json(JsonArray)}

----------------------------------------------------------------------------
(* app/data/unicode-names.server.ts *)

NotCached == [has |-> FALSE, value |-> EmptyObject]
Cached(v) == [has |-> TRUE, value |-> v]

\* the absent-file branch returns the empty map without recording it
loadBlockNames_MissNotCached(blockSlug) ==
  IF namesCache[blockSlug].has
    THEN [ret |-> namesCache[blockSlug].value, cache |-> namesCache, touched |-> FALSE]
  ELSE IF files[blockSlug].state = "absent"
    THEN [ret |-> EmptyObject, cache |-> namesCache, touched |-> TRUE]
  ELSE IF files[blockSlug].state = "json"
    THEN [ret |-> files[blockSlug].json,
          cache |-> [namesCache EXCEPT ![blockSlug] = Cached(files[blockSlug].json)],
          touched |-> TRUE]
  ELSE [ret |-> EmptyObject,
        cache |-> [namesCache EXCEPT ![blockSlug] = Cached(EmptyObject)],
        touched |-> TRUE]

\* the value returned, the cache afterwards, and whether the call went to
\* the file system (existsSync, readFileSync)
loadBlockNames(blockSlug) ==
  IF namesCache[blockSlug].has
    THEN [ret |-> namesCache[blockSlug].value, cache |-> namesCache, touched |-> FALSE]
  ELSE IF files[blockSlug].state = "absent"
    THEN [ret |-> EmptyObject,
          cache |-> [namesCache EXCEPT ![blockSlug] = Cached(EmptyObject)],
          touched |-> TRUE]
  ELSE IF files[blockSlug].state = "json"
    \* JSON.parse(readFileSync(..)) succeeded: the parsed value, whatever it is
    THEN [ret |-> files[blockSlug].json,
          cache |-> [namesCache EXCEPT ![blockSlug] = Cached(files[blockSlug].json)],
          touched |-> TRUE]
  \* readFileSync or JSON.parse threw: the catch branch
  ELSE [ret |-> EmptyObject,
        cache |-> [namesCache EXCEPT ![blockSlug] = Cached(EmptyObject)],
        touched |-> TRUE]

\* names[hex]: property read; reading a property of null throws a TypeError
PropertyRead(names, hex) ==
  IF names.kind = "null" THEN [outcome |-> "throw", name |-> ""]
  ELSE IF hex \in DOMAIN names.entries
    THEN [outcome |-> "name", name |-> names.entries[hex]]
  ELSE [outcome |-> "undefined", name |-> ""]

\* app/data/unicode-names.server.ts
getCharacterName(names, charCode) ==
  PropertyRead(names, toUpperCase(numberToString16(charCode)))

\* the loader module that resolves NAMES_DIR from process.cwd()
getCharacterNamePadded(names, charCode) ==
  PropertyRead(names, padStart(toUpperCase(numberToString16(charCode)), 4, "0"))

\* hooks: useCharacterNames(..).getName
getName(names, charCode) ==
  PropertyRead(names, toUpperCase(numberToString16(charCode)))

LookupCodes == {0, 65, 128512}

\* code points read in the readers' specification: stored and not stored
ReaderCodes == {0, 1, 10, 16, 65, 66, 97, 122, 255, 4095, 4096, 65535, 128512, 128513}

\* maps handed to a reader: an emitted file, the empty map, a stray array
ReaderMaps == {EmittedObject(slug) : slug \in NameSlugs} \cup {EmptyObject, JsonArray}

NoLoad == [called |-> FALSE, slug |-> "", value |-> EmptyObject, fromCache |-> FALSE]
NoFirstLoad == [called |-> FALSE, value |-> EmptyObject, seen |-> Absent]
NoLookup ==
  [done |-> FALSE, reader |-> "", names |-> EmptyObject, charCode |-> 0,
   outcome |-> "undefined", name |-> ""]
Looked(reader, names, charCode, r) ==
  [done |-> TRUE, reader |-> reader, names |-> names, charCode |-> charCode,
   outcome |-> r.outcome, name |-> r.name]

IdleNames ==
  /\ files = [slug \in NameSlugs |-> Absent]
  /\ namesCache = [slug \in NameSlugs |-> NotCached]
  /\ fsTouches = [slug \in NameSlugs |-> 0]
  /\ firstLoad = [slug \in NameSlugs |-> NoFirstLoad]
  /\ lastLoad = NoLoad
  /\ lookup = NoLookup

\* the environment creates, rewrites, damages or deletes a names file
FsChange(slug, st) ==
  /\ st # files[slug]
  /\ files' = [files EXCEPT ![slug] = st]
  /\ UNCHANGED <<namesCache, fsTouches, firstLoad, lastLoad, lookup, parseVars, catalogVars, opsVars, buildVars, uiVars>>

\* the effect of one loadBlockNames(slug) call on the loader's state
LoadEffect(slug) ==
  LET r == loadBlockNames(slug)
  IN /\ r.touched => fsTouches[slug] < MaxTouches
     /\ namesCache' = r.cache
     /\ fsTouches' = [fsTouches EXCEPT ![slug] = @ + (IF r.touched THEN 1 ELSE 0)]
     /\ firstLoad' = IF firstLoad[slug].called THEN firstLoad
                     ELSE [firstLoad EXCEPT ![slug] =
                             [called |-> TRUE, value |-> r.ret, seen |-> files[slug]]]
     /\ lastLoad' = [called |-> TRUE, slug |-> slug, value |-> r.ret,
                     fromCache |-> ~r.touched]

LoadBlockNames(slug) ==
  /\ LoadEffect(slug)
  /\ lookup' = NoLookup
  /\ UNCHANGED <<files, parseVars, catalogVars, opsVars, buildVars, uiVars>>

\* a name is read from a map with the server module's reader
GetCharacterName(names, charCode) ==
  /\ lookup' = Looked("getCharacterName", names, charCode,
                      getCharacterName(names, charCode))
  /\ UNCHANGED <<files, namesCache, fsTouches, firstLoad, lastLoad, parseVars, catalogVars, opsVars, buildVars, uiVars>>

\* loadCharacterName(blockSlug, charCode): load, then read
LoadCharacterName(slug, charCode) ==
  /\ LoadEffect(slug)
  /\ lookup' = Looked("loadCharacterName", loadBlockNames(slug).ret, charCode,
                      getCharacterNamePadded(loadBlockNames(slug).ret, charCode))
  /\ UNCHANGED <<files, parseVars, catalogVars, opsVars, buildVars, uiVars>>

\* the client hook reads a name from the map it fetched
GetName(names, charCode) ==
  /\ lookup' = Looked("getName", names, charCode, getName(names, charCode))
  /\ UNCHANGED <<files, namesCache, fsTouches, firstLoad, lastLoad, parseVars, catalogVars, opsVars, buildVars, uiVars>>

----------------------------------------------------------------------------
(* app/data/unicode-blocks.ts: operations on the block table, and the page
   computations that consume their results *)

\* no operation requested
NoCall ==
  [op |-> "none", text |-> <<>>, block |-> 0, results |-> <<>>, filter |-> <<>>,
   done |-> FALSE, found |-> 0, blocks |-> <<>>, alias |-> FALSE, groups |-> <<>>,
   codes |-> <<>>, prevCodes |-> <<>>, repeated |-> FALSE]

\* an operation about to be called with a text or a block argument; a block
\* argument is named by its index in UNICODE_BLOCKS
Request(op, txt, block) ==
  [NoCall EXCEPT !.op = op, !.text = txt, !.block = block]

\* a page about to be rendered for a block, a search text, the results of the
\* global name search and a block filter
PageRequest(op, txt, block, results, filterBlock) ==
  [NoCall EXCEPT !.op = op, !.text = txt, !.block = block, !.results = results,
                 !.filter = filterBlock]

IdleOps ==
  /\ CATEGORIES = LoadedCategories
  /\ call = NoCall

\* UNICODE_BLOCKS.find(b => b.slug === slug): the first index from i on whose
\* block has the slug, 0 when there is none
FindSlug(blocks, slug, i) ==
  LET hits == {j \in i..Len(blocks) : blocks[j].slug = slug}
  IN IF hits = {} THEN 0 ELSE Min(hits)

\* the argument lower-cased before the comparison
getBlockBySlug_IgnoreCase(slug) == FindSlug(UNICODE_BLOCKS, toLowerCase(slug), 1)

\* the index of the block found, 0 for undefined
getBlockBySlug(slug) == FindSlug(UNICODE_BLOCKS, slug, 1)

\* String.prototype.includes
includes(s, sub) ==
  \E k \in 0..(Len(s) - Len(sub)) : SubSeq(s, k + 1, k + Len(sub)) = sub

\* Array.prototype.filter builds a new array; the receiver keeps its elements
getBlocksByCategory(category) ==
  SelectSeq(UNICODE_BLOCKS, LAMBDA b : CharsOf[b.cat] = category)

\* the test on the category left out
searchBlocks_NameOnly(query) ==
  IF query = <<>> THEN [alias |-> TRUE, blocks |-> UNICODE_BLOCKS]
  ELSE LET lowerQuery == toLowerCase(query)
       IN [alias |-> FALSE,
           blocks |-> SelectSeq(UNICODE_BLOCKS,
                        LAMBDA b : includes(toLowerCase(CharsOf[b.name]), lowerQuery))]

\* alias: the array returned is UNICODE_BLOCKS itself, not a copy
searchBlocks(query) ==
  IF query = <<>> THEN [alias |-> TRUE, blocks |-> UNICODE_BLOCKS]
  ELSE LET lowerQuery == toLowerCase(query)
       IN [alias |-> FALSE,
           blocks |-> SelectSeq(UNICODE_BLOCKS,
                        LAMBDA b : \/ includes(toLowerCase(CharsOf[b.name]), lowerQuery)
                                   \/ includes(toLowerCase(CharsOf[b.cat]), lowerQuery))]

\* the loop stopping one short of block.end
getCharCodesForBlock_EndExclusive(block) ==
  [i \in 1..(block.end - block.start) |-> block.start + i - 1]

\* for (i = block.start; i <= block.end; i++) codes.push(i)
getCharCodesForBlock(block) ==
  [i \in 1..(block.end - block.start + 1) |-> block.start + i - 1]

\* Sidebar: blocks with hits of the name search, else blocks matching the text
filteredBlocks(searchQuery, globalSearchResults) ==
  IF isNameSearch(searchQuery) /\ Len(globalSearchResults) > 0
    THEN [alias |-> FALSE,
          blocks |-> SelectSeq(UNICODE_BLOCKS,
                       LAMBDA b : \E k \in DOMAIN globalSearchResults :
                                    /\ globalSearchResults[k].slug = b.slug
                                    /\ Len(globalSearchResults[k].codes) > 0)]
    ELSE searchBlocks(searchQuery)

Reverse(s) == [i \in 1..Len(s) |-> s[Len(s) + 1 - i]]

\* the list reversed in place before it is grouped
catBlocks_ReverseInPlace(filtered) ==
  [receiver |-> Reverse(filtered),
   groups |-> [c \in DOMAIN CATEGORIES |->
                 SelectSeq(Reverse(filtered), LAMBDA b : b.cat = CATEGORIES[c])]]

\* Sidebar: CATEGORIES.map(cat => filteredBlocks.filter(b => b.cat === cat));
\* receiver is the array filteredBlocks refers to, as the calls leave it
catBlocks(filtered) ==
  [receiver |-> filtered,
   groups |-> [c \in DOMAIN CATEGORIES |->
                 SelectSeq(filtered, LAMBDA b : b.cat = CATEGORIES[c])]]

\* Array.prototype.sort((a, b) => a - b)
sortNumbers(s) ==
  [k \in 1..Len(s) |->
     CHOOSE x \in Range(s) :
       /\ Cardinality({j \in DOMAIN s : s[j] < x}) < k
       /\ k <= Cardinality({j \in DOMAIN s : s[j] <= x})]

\* allResults.push(...codes) for every value of globalSearchResults
RECURSIVE allResults(_)
allResults(globalSearchResults) ==
  IF globalSearchResults = <<>> THEN <<>>
  ELSE Head(globalSearchResults).codes \o allResults(Tail(globalSearchResults))

\* globalSearchResults[filterBlock] || []
resultsOfBlock(globalSearchResults, filterBlock) ==
  IF \E k \in DOMAIN globalSearchResults : globalSearchResults[k].slug = filterBlock
    THEN globalSearchResults[CHOOSE k \in DOMAIN globalSearchResults :
                               globalSearchResults[k].slug = filterBlock].codes
    ELSE <<>>

\* BlockPage: the code points the grid shows
charCodes(block, searchQuery, globalSearchResults, filterBlock) ==
  LET hexMatch == parseHexSearch(searchQuery)
  IN IF Len(searchQuery) >= 2 /\ ~hexMatch.isNull THEN <<hexMatch.value>>
     ELSE IF Len(searchQuery) >= 2 /\ Len(globalSearchResults) > 0
       THEN IF filterBlock # <<>>
              THEN resultsOfBlock(globalSearchResults, filterBlock)
              ELSE sortNumbers(allResults(globalSearchResults))
     ELSE getCharCodesForBlock(block)

\* URL segments: every slug of the table, and texts close to a slug
SlugInputs ==
  UNION {{LoadedBlocks[i].slug,
          toUpperCase(LoadedBlocks[i].slug),
          CharsOf[LoadedBlocks[i].name],
          LoadedBlocks[i].slug \o <<"-">>,
          Tail(LoadedBlocks[i].slug)} : i \in DOMAIN LoadedBlocks}
    \cup {<<>>, <<"-">>}

\* search texts: every category, pieces of names, and texts matching nothing
QuerySamples ==
  {CharsOf[LoadedCategories[c]] : c \in DOMAIN LoadedCategories}
    \cup { <<"l", "a", "t", "i", "n">>, <<"e", "x", "t">>, <<"c", "j", "k">>,
           <<"s", "u", "p", "p", "l", "e", "m", "e", "n", "t">>,
           <<"a">>, <<" ">>, <<"-">>, <<"(">>, <<"a", "s", "i", "a">>,
           <<"n", " ", "e">>, <<"z", "z", "z">>, <<"l", "a", "t", "i", "n", "s">>,
           <<"s", "y", "m", "b", "o", "l", "s", " ", "a", "n", "d">> }

Queries ==
  UNION {{q, toUpperCase(q), toLowerCase(q)} : q \in QuerySamples} \cup {<<>>}

CategoryInputs ==
  UNION {{q, toLowerCase(q)} : q \in {CharsOf[LoadedCategories[c]] : c \in DOMAIN LoadedCategories}}
    \cup {<<>>}

\* results of the global name search, in the order of Object.values
ResultSamples ==
  { <<>>,
    << [slug |-> createSlug(CharsOf["Emoticons (Emoji)"]), codes |-> <<128512, 128513>>],
       [slug |-> createSlug(CharsOf["Basic Latin (ASCII)"]), codes |-> <<97, 65>>] >>,
    << [slug |-> createSlug(CharsOf["Hangul Syllables"]), codes |-> <<>>],
       [slug |-> createSlug(CharsOf["Arrows"]), codes |-> <<8594>>] >> }

PageQueries ==
  { <<>>, <<"a">>, <<"4", "1">>, <<"U", "+", "4", "1">>, <<"l", "a", "t", "i", "n">>,
    <<"s", "m", "i", "l", "e">>, <<"a", "r", "r", "o", "w">>, <<"z", "z">> }

FilterInputs ==
  {<<>>, createSlug(CharsOf["Basic Latin (ASCII)"]), createSlug(CharsOf["Arrows"]),
   createSlug(CharsOf["Hangul Syllables"]), createSlug(CharsOf["Georgian"])}

PageBlocks == {1, 2, Len(LoadedBlocks)}

GetBlockBySlug ==
  /\ call.op = "getBlockBySlug"
  /\ ~call.done
  /\ call' = [call EXCEPT !.done = TRUE, !.found = getBlockBySlug(call.text)]
  /\ UNCHANGED <<CATEGORIES, parseVars, catalogVars, namesVars, buildVars, uiVars>>

GetBlocksByCategory ==
  /\ call.op = "getBlocksByCategory"
  /\ ~call.done
  /\ call' = [call EXCEPT !.done = TRUE, !.blocks = getBlocksByCategory(call.text)]
  /\ UNCHANGED <<CATEGORIES, parseVars, catalogVars, namesVars, buildVars, uiVars>>

SearchBlocks ==
  /\ call.op = "searchBlocks"
  /\ ~call.done
  /\ LET ret == searchBlocks(call.text)
     IN call' = [call EXCEPT !.done = TRUE, !.blocks = ret.blocks, !.alias = ret.alias]
  /\ UNCHANGED <<CATEGORIES, parseVars, catalogVars, namesVars, buildVars, uiVars>>

\* the first call, and the same call once more
GetCharCodesForBlock ==
  /\ call.op = "getCharCodesForBlock"
  /\ ~call.repeated
  /\ call' = [call EXCEPT !.done = TRUE,
                          !.repeated = call.done,
                          !.prevCodes = call.codes,
                          !.codes = getCharCodesForBlock(UNICODE_BLOCKS[call.block])]
  /\ UNCHANGED <<CATEGORIES, parseVars, catalogVars, namesVars, buildVars, uiVars>>

\* Sidebar render; when filteredBlocks is UNICODE_BLOCKS itself, whatever the
\* render does to the array it does to the catalog
Sidebar ==
  /\ call.op = "Sidebar"
  /\ ~call.done
  /\ LET filtered == filteredBlocks(call.text, call.results)
         rendered == catBlocks(filtered.blocks)
     IN /\ call' = [call EXCEPT !.done = TRUE, !.blocks = filtered.blocks,
                                !.alias = filtered.alias, !.groups = rendered.groups]
        /\ UNICODE_BLOCKS' = IF filtered.alias THEN rendered.receiver ELSE UNICODE_BLOCKS
  /\ UNCHANGED <<CATEGORIES, codePoint, foundBlock, parseVars, namesVars, buildVars, uiVars>>

\* BlockPage render; the array it sorts is one it has just built
BlockPage ==
  /\ call.op = "BlockPage"
  /\ ~call.done
  /\ call' = [call EXCEPT !.done = TRUE,
                          !.codes = charCodes(UNICODE_BLOCKS[call.block], call.text,
                                              call.results, call.filter)]
  /\ UNCHANGED <<CATEGORIES, parseVars, catalogVars, namesVars, buildVars, uiVars>>

OpsRequests ==
  {Request("getBlockBySlug", slug, 0) : slug \in SlugInputs}
    \cup {Request("getBlocksByCategory", category, 0) : category \in CategoryInputs}
    \cup {Request("searchBlocks", query, 0) : query \in Queries}
    \cup {Request("getCharCodesForBlock", <<>>, i) : i \in DOMAIN LoadedBlocks}
    \cup {PageRequest("Sidebar", query, 0, results, <<>>) :
            query \in PageQueries, results \in ResultSamples}
    \cup {PageRequest("BlockPage", query, i, results, filterBlock) :
            query \in PageQueries, i \in PageBlocks, results \in ResultSamples,
            filterBlock \in FilterInputs}

\* what a visitor does after a page is shown
FollowUps ==
  { Request("getBlockBySlug", createSlug(CharsOf["Arrows"]), 0),
    Request("getBlocksByCategory", CharsOf["Math"], 0),
    Request("searchBlocks", <<>>, 0),
    Request("searchBlocks", <<"e", "x", "t">>, 0),
    Request("getCharCodesForBlock", <<>>, 1),
    PageRequest("Sidebar", <<>>, 0, <<>>, <<>>),
    PageRequest("Sidebar", <<"a">>, 0, <<>>, <<>>),
    PageRequest("BlockPage", <<>>, 2, <<>>, <<>>) }

\* the next request arrives once the last one is answered
Navigate ==
  /\ call.done
  /\ call' \in FollowUps
  /\ UNCHANGED <<CATEGORIES, parseVars, catalogVars, namesVars, buildVars, uiVars>>

----------------------------------------------------------------------------
(* scripts/build-unicode-data.ts: algorithmic names *)

\* the table the builder embeds
BuildBlocksRaw ==
  << [name |-> "Basic Latin (ASCII)", start |-> 0, end |-> 127, cat |-> "Latin"],
     [name |-> "Latin-1 Supplement", start |-> 128, end |-> 255, cat |-> "Latin"],
     [name |-> "Latin Extended-A", start |-> 256, end |-> 383, cat |-> "Latin"],
     [name |-> "Latin Extended-B", start |-> 384, end |-> 591, cat |-> "Latin"],
     [name |-> "IPA Extensions", start |-> 592, end |-> 687, cat |-> "Latin"],
     [name |-> "Spacing Modifier Letters", start |-> 688, end |-> 767, cat |-> "Latin"],
     [name |-> "Combining Diacritical Marks", start |-> 768, end |-> 879, cat |-> "Latin"],
     [name |-> "Greek and Coptic", start |-> 880, end |-> 1023, cat |-> "European"],
     [name |-> "Cyrillic", start |-> 1024, end |-> 1279, cat |-> "European"],
     [name |-> "Cyrillic Supplement", start |-> 1280, end |-> 1327, cat |-> "European"],
     [name |-> "Armenian", start |-> 1328, end |-> 1423, cat |-> "European"],
     [name |-> "Hebrew", start |-> 1424, end |-> 1535, cat |-> "Middle East"],
     [name |-> "Arabic", start |-> 1536, end |-> 1791, cat |-> "Middle East"],
     [name |-> "Syriac", start |-> 1792, end |-> 1871, cat |-> "Middle East"],
     [name |-> "Arabic Supplement", start |-> 1872, end |-> 1919, cat |-> "Middle East"],
     [name |-> "Thaana", start |-> 1920, end |-> 1983, cat |-> "Middle East"],
     [name |-> "NKo", start |-> 1984, end |-> 2047, cat |-> "Africa"],
     [name |-> "Devanagari", start |-> 2304, end |-> 2431, cat |-> "South Asia"],
     [name |-> "Bengali", start |-> 2432, end |-> 2559, cat |-> "South Asia"],
     [name |-> "Gurmukhi", start |-> 2560, end |-> 2687, cat |-> "South Asia"],
     [name |-> "Gujarati", start |-> 2688, end |-> 2815, cat |-> "South Asia"],
     [name |-> "Oriya", start |-> 2816, end |-> 2943, cat |-> "South Asia"],
     [name |-> "Tamil", start |-> 2944, end |-> 3071, cat |-> "South Asia"],
     [name |-> "Telugu", start |-> 3072, end |-> 3199, cat |-> "South Asia"],
     [name |-> "Kannada", start |-> 3200, end |-> 3327, cat |-> "South Asia"],
     [name |-> "Malayalam", start |-> 3328, end |-> 3455, cat |-> "South Asia"],
     [name |-> "Sinhala", start |-> 3456, end |-> 3583, cat |-> "South Asia"],
     [name |-> "Thai", start |-> 3584, end |-> 3711, cat |-> "SE Asia"],
     [name |-> "Lao", start |-> 3712, end |-> 3839, cat |-> "SE Asia"],
     [name |-> "Tibetan", start |-> 3840, end |-> 4095, cat |-> "SE Asia"],
     [name |-> "Myanmar", start |-> 4096, end |-> 4255, cat |-> "SE Asia"],
     [name |-> "Georgian", start |-> 4256, end |-> 4351, cat |-> "European"],
     [name |-> "Hangul Jamo", start |-> 4352, end |-> 4607, cat |-> "East Asia"],
     [name |-> "Ethiopic", start |-> 4608, end |-> 4991, cat |-> "Africa"],
     [name |-> "Cherokee", start |-> 5024, end |-> 5119, cat |-> "American"],
     [name |-> "Unified Canadian Aboriginal", start |-> 5120, end |-> 5759, cat |-> "American"],
     [name |-> "Ogham", start |-> 5760, end |-> 5791, cat |-> "Historic"],
     [name |-> "Runic", start |-> 5792, end |-> 5887, cat |-> "Historic"],
     [name |-> "Tagalog", start |-> 5888, end |-> 5919, cat |-> "SE Asia"],
     [name |-> "Khmer", start |-> 6016, end |-> 6143, cat |-> "SE Asia"],
     [name |-> "Mongolian", start |-> 6144, end |-> 6319, cat |-> "East Asia"],
     [name |-> "Phonetic Extensions", start |-> 7424, end |-> 7551, cat |-> "Language"],
     [name |-> "Latin Extended Additional", start |-> 7680, end |-> 7935, cat |-> "Latin"],
     [name |-> "Greek Extended", start |-> 7936, end |-> 8191, cat |-> "European"],
     [name |-> "General Punctuation", start |-> 8192, end |-> 8303, cat |-> "Symbols"],
     [name |-> "Superscripts and Subscripts", start |-> 8304, end |-> 8351, cat |-> "Symbols"],
     [name |-> "Currency Symbols", start |-> 8352, end |-> 8399, cat |-> "Symbols"],
     [name |-> "Combining Diacritical Marks for Symbols", start |-> 8400, end |-> 8447, cat |-> "Symbols"],
     [name |-> "Letterlike Symbols", start |-> 8448, end |-> 8527, cat |-> "Symbols"],
     [name |-> "Number Forms", start |-> 8528, end |-> 8591, cat |-> "Symbols"],
     [name |-> "Arrows", start |-> 8592, end |-> 8703, cat |-> "Arrows"],
     [name |-> "Mathematical Operators", start |-> 8704, end |-> 8959, cat |-> "Math"],
     [name |-> "Miscellaneous Technical", start |-> 8960, end |-> 9215, cat |-> "Tech"],
     [name |-> "Control Pictures", start |-> 9216, end |-> 9279, cat |-> "Tech"],
     [name |-> "OCR", start |-> 9280, end |-> 9311, cat |-> "Tech"],
     [name |-> "Enclosed Alphanumerics", start |-> 9312, end |-> 9471, cat |-> "Symbols"],
     [name |-> "Box Drawing", start |-> 9472, end |-> 9599, cat |-> "Shapes"],
     [name |-> "Block Elements", start |-> 9600, end |-> 9631, cat |-> "Shapes"],
     [name |-> "Geometric Shapes", start |-> 9632, end |-> 9727, cat |-> "Shapes"],
     [name |-> "Miscellaneous Symbols", start |-> 9728, end |-> 9983, cat |-> "Symbols"],
     [name |-> "Dingbats", start |-> 9984, end |-> 10175, cat |-> "Symbols"],
     [name |-> "Misc Mathematical Symbols-A", start |-> 10176, end |-> 10223, cat |-> "Math"],
     [name |-> "Supplemental Arrows-A", start |-> 10224, end |-> 10239, cat |-> "Arrows"],
     [name |-> "Braille Patterns", start |-> 10240, end |-> 10495, cat |-> "Language"],
     [name |-> "Supplemental Arrows-B", start |-> 10496, end |-> 10623, cat |-> "Arrows"],
     [name |-> "Misc Mathematical Symbols-B", start |-> 10624, end |-> 10751, cat |-> "Math"],
     [name |-> "Supplemental Math Operators", start |-> 10752, end |-> 11007, cat |-> "Math"],
     [name |-> "Misc Symbols and Arrows", start |-> 11008, end |-> 11263, cat |-> "Arrows"],
     [name |-> "CJK Radicals Supplement", start |-> 11904, end |-> 12031, cat |-> "East Asia"],
     [name |-> "Kangxi Radicals", start |-> 12032, end |-> 12255, cat |-> "East Asia"],
     [name |-> "Ideographic Description", start |-> 12272, end |-> 12287, cat |-> "East Asia"],
     [name |-> "CJK Symbols and Punctuation", start |-> 12288, end |-> 12351, cat |-> "East Asia"],
     [name |-> "Hiragana", start |-> 12352, end |-> 12447, cat |-> "East Asia"],
     [name |-> "Katakana", start |-> 12448, end |-> 12543, cat |-> "East Asia"],
     [name |-> "Bopomofo", start |-> 12544, end |-> 12591, cat |-> "East Asia"],
     [name |-> "Hangul Compatibility Jamo", start |-> 12592, end |-> 12687, cat |-> "East Asia"],
     [name |-> "Kanbun", start |-> 12688, end |-> 12703, cat |-> "East Asia"],
     [name |-> "Bopomofo Extended", start |-> 12704, end |-> 12735, cat |-> "East Asia"],
     [name |-> "CJK Strokes", start |-> 12736, end |-> 12783, cat |-> "East Asia"],
     [name |-> "Katakana Phonetic Ext", start |-> 12784, end |-> 12799, cat |-> "East Asia"],
     [name |-> "Enclosed CJK Letters", start |-> 12800, end |-> 13055, cat |-> "East Asia"],
     [name |-> "CJK Compatibility", start |-> 13056, end |-> 13311, cat |-> "East Asia"],
     [name |-> "CJK Unified Ideographs Ext-A", start |-> 13312, end |-> 19903, cat |-> "East Asia"],
     [name |-> "Hexagram Symbols", start |-> 19904, end |-> 19967, cat |-> "Symbols"],
     [name |-> "CJK Unified Ideographs", start |-> 19968, end |-> 40959, cat |-> "East Asia"],
     [name |-> "Yi Syllables", start |-> 40960, end |-> 42127, cat |-> "East Asia"],
     [name |-> "Yi Radicals", start |-> 42128, end |-> 42191, cat |-> "East Asia"],
     [name |-> "Hangul Syllables", start |-> 44032, end |-> 55215, cat |-> "East Asia"],
     [name |-> "Private Use Area", start |-> 57344, end |-> 63743, cat |-> "Other"],
     [name |-> "CJK Compatibility Ideographs", start |-> 63744, end |-> 64255, cat |-> "East Asia"],
     [name |-> "Alphabetic Presentation Forms", start |-> 64256, end |-> 64335, cat |-> "Symbols"],
     [name |-> "Arabic Presentation Forms-A", start |-> 64336, end |-> 65023, cat |-> "Middle East"],
     [name |-> "Variation Selectors", start |-> 65024, end |-> 65039, cat |-> "Tech"],
     [name |-> "Vertical Forms", start |-> 65040, end |-> 65055, cat |-> "Tech"],
     [name |-> "Combining Half Marks", start |-> 65056, end |-> 65071, cat |-> "Symbols"],
     [name |-> "CJK Compatibility Forms", start |-> 65072, end |-> 65103, cat |-> "East Asia"],
     [name |-> "Small Form Variants", start |-> 65104, end |-> 65135, cat |-> "Symbols"],
     [name |-> "Arabic Presentation Forms-B", start |-> 65136, end |-> 65279, cat |-> "Middle East"],
     [name |-> "Halfwidth and Fullwidth Forms", start |-> 65280, end |-> 65519, cat |-> "East Asia"],
     [name |-> "Specials", start |-> 65520, end |-> 65535, cat |-> "Tech"],
     [name |-> "Linear B Syllabary", start |-> 65536, end |-> 65663, cat |-> "Historic"],
     [name |-> "Ancient Greek Numbers", start |-> 65856, end |-> 65935, cat |-> "Historic"],
     [name |-> "Phaistos Disc", start |-> 66000, end |-> 66047, cat |-> "Historic"],
     [name |-> "Mahjong Tiles", start |-> 126976, end |-> 127023, cat |-> "Game"],
     [name |-> "Domino Tiles", start |-> 127024, end |-> 127135, cat |-> "Game"],
     [name |-> "Playing Cards", start |-> 127136, end |-> 127231, cat |-> "Game"],
     [name |-> "Enclosed Alphanumeric Suppl", start |-> 127232, end |-> 127487, cat |-> "Symbols"],
     [name |-> "Enclosed Ideographic Suppl", start |-> 127488, end |-> 127743, cat |-> "East Asia"],
     [name |-> "Misc Symbols and Pictographs", start |-> 127744, end |-> 128511, cat |-> "Emoji"],
     [name |-> "Emoticons (Emoji)", start |-> 128512, end |-> 128591, cat |-> "Emoji"],
     [name |-> "Ornamental Dingbats", start |-> 128592, end |-> 128639, cat |-> "Symbols"],
     [name |-> "Transport and Map Symbols", start |-> 128640, end |-> 128767, cat |-> "Emoji"],
     [name |-> "Alchemical Symbols", start |-> 128768, end |-> 128895, cat |-> "Symbols"],
     [name |-> "Geometric Shapes Extended", start |-> 128896, end |-> 129023, cat |-> "Shapes"],
     [name |-> "Supplemental Arrows-C", start |-> 129024, end |-> 129279, cat |-> "Arrows"],
     [name |-> "Supplemental Symbols and Pictographs", start |-> 129280, end |-> 129535, cat |-> "Emoji"],
     [name |-> "Chess Symbols", start |-> 129536, end |-> 129647, cat |-> "Game"],
     [name |-> "Symbols and Pictographs Extended-A", start |-> 129648, end |-> 129791, cat |-> "Emoji"] >>

\* the trailing and leading hyphens are left in place
BuildCreateSlug_KeepsEdgeHyphens(name) == replaceNonSlugRuns(toLowerCase(name))

\* the builder's createSlug
BuildCreateSlug(name) == trimHyphens(replaceNonSlugRuns(toLowerCase(name)))

\* UNICODE_BLOCKS_RAW.map(block => ({...block, slug: createSlug(block.name)}))
\* of the builder
BuildBlocks ==
  [i \in DOMAIN BuildBlocksRaw |->
     [name |-> BuildBlocksRaw[i].name,
      start |-> BuildBlocksRaw[i].start,
      end |-> BuildBlocksRaw[i].end,
      cat |-> BuildBlocksRaw[i].cat,
      slug |-> BuildCreateSlug(CharsOf[BuildBlocksRaw[i].name])]]

findBlockForCodePoint_StartOnly(cp) ==
  LET hits == {j \in DOMAIN BuildBlocks : cp >= BuildBlocks[j].start}
  IN IF hits = {} THEN 0 ELSE Min(hits)

\* the index of the block found, 0 for undefined
findBlockForCodePoint(cp) == FindContaining(BuildBlocks, cp, 1)

HANGUL_SYLLABLE_BASE == 44032
HANGUL_LEAD_COUNT == 19
HANGUL_VOWEL_COUNT == 21
HANGUL_TRAIL_COUNT == 28
HANGUL_N_COUNT == HANGUL_VOWEL_COUNT * HANGUL_TRAIL_COUNT
HANGUL_S_COUNT == HANGUL_LEAD_COUNT * HANGUL_N_COUNT

JAMO_L_TABLE ==
  << <<"G">>, <<"G", "G">>, <<"N">>, <<"D">>, <<"D", "D">>, <<"R">>,
     <<"M">>, <<"B">>, <<"B", "B">>, <<"S">>, <<"S", "S">>, <<>>,
     <<"J">>, <<"J", "J">>, <<"C">>, <<"K">>, <<"T">>, <<"P">>,
     <<"H">> >>

JAMO_V_TABLE ==
  << <<"A">>, <<"A", "E">>, <<"Y", "A">>, <<"Y", "A", "E">>, <<"E", "O">>, <<"E">>,
     <<"Y", "E", "O">>, <<"Y", "E">>, <<"O">>, <<"W", "A">>, <<"W", "A", "E">>, <<"O", "E">>,
     <<"Y", "O">>, <<"U">>, <<"W", "E", "O">>, <<"W", "E">>, <<"W", "I">>, <<"Y", "U">>,
     <<"E", "U">>, <<"Y", "I">>, <<"I">> >>

JAMO_T_TABLE ==
  << <<>>, <<"G">>, <<"G", "G">>, <<"G", "S">>, <<"N">>, <<"N", "J">>,
     <<"N", "H">>, <<"D">>, <<"L">>, <<"L", "G">>, <<"L", "M">>, <<"L", "B">>,
     <<"L", "S">>, <<"L", "T">>, <<"L", "P">>, <<"L", "H">>, <<"M">>, <<"B">>,
     <<"B", "S">>, <<"S">>, <<"S", "S">>, <<"N", "G">>, <<"J">>, <<"C">>,
     <<"K">>, <<"T">>, <<"P">>, <<"H">> >>

\* what a template literal prints for a read outside an array
UndefinedText == <<"u", "n", "d", "e", "f", "i", "n", "e", "d">>

\* table[index] inside a template literal; JavaScript indices start at 0
TableRead(table, index) ==
  IF index + 1 \in DOMAIN table THEN table[index + 1] ELSE UndefinedText

\* the remainder operator of JavaScript takes the sign of the dividend
Remainder(a, b) == IF a >= 0 THEN a % b ELSE 0 - ((0 - a) % b)

HangulPrefix == <<"H", "A", "N", "G", "U", "L", " ", "S", "Y", "L", "L", "A", "B", "L", "E", " ">>

\* the vowel index taken from the whole syllable index
getHangulSyllableName_VowelNotReduced(cp) ==
  LET syllableIndex == cp - HANGUL_SYLLABLE_BASE
      leadIndex == syllableIndex \div HANGUL_N_COUNT
      vowelIndex == syllableIndex \div HANGUL_TRAIL_COUNT
      trailIndex == Remainder(syllableIndex, HANGUL_TRAIL_COUNT)
  IN HangulPrefix \o TableRead(JAMO_L_TABLE, leadIndex)
       \o TableRead(JAMO_V_TABLE, vowelIndex) \o TableRead(JAMO_T_TABLE, trailIndex)

getHangulSyllableName(cp) ==
  LET syllableIndex == cp - HANGUL_SYLLABLE_BASE
      leadIndex == syllableIndex \div HANGUL_N_COUNT
      vowelIndex == Remainder(syllableIndex, HANGUL_N_COUNT) \div HANGUL_TRAIL_COUNT
      trailIndex == Remainder(syllableIndex, HANGUL_TRAIL_COUNT)
  IN HangulPrefix \o TableRead(JAMO_L_TABLE, leadIndex)
       \o TableRead(JAMO_V_TABLE, vowelIndex) \o TableRead(JAMO_T_TABLE, trailIndex)

isHangulSyllable(cp) ==
  cp >= HANGUL_SYLLABLE_BASE /\ cp < HANGUL_SYLLABLE_BASE + HANGUL_S_COUNT

isCJKUnifiedIdeograph(cp) ==
  \/ cp >= 19968 /\ cp <= 40959      \* 0x4e00..0x9fff
  \/ cp >= 13312 /\ cp <= 19903      \* 0x3400..0x4dbf
  \/ cp >= 131072 /\ cp <= 173791    \* 0x20000..0x2a6df
  \/ cp >= 173824 /\ cp <= 177983    \* 0x2a700..0x2b73f
  \/ cp >= 177984 /\ cp <= 178207    \* 0x2b740..0x2b81f
  \/ cp >= 178208 /\ cp <= 183983    \* 0x2b820..0x2ceaf
  \/ cp >= 183984 /\ cp <= 191471    \* 0x2ceb0..0x2ebef
  \/ cp >= 196608 /\ cp <= 201551    \* 0x30000..0x3134f
  \/ cp >= 201552 /\ cp <= 205743    \* 0x31350..0x323af

CJKPrefix == <<"C", "J", "K", " ", "U", "N", "I", "F", "I", "E", "D", " ", "I", "D", "E", "O", "G", "R", "A", "P", "H", "-">>

getCJKUnifiedIdeographName(cp) == CJKPrefix \o toUpperCase(numberToString16(cp))

\* getHangulSyllableName not called / called with cp and returning name
NoSyllable == [cp |-> 0, called |-> FALSE, name |-> <<>>]

\* every code point of the Hangul Syllables block, 0xac00..0xd7af
SyllableInputs == 44032..55215

GetHangulSyllableName ==
  /\ ~syllable.called
  /\ syllable' = [syllable EXCEPT !.called = TRUE,
                                  !.name = getHangulSyllableName(syllable.cp)]
  /\ UNCHANGED <<env, stage, log, zipCached, blockDataMap, outputDir, exitCode,
                 runs, parseVars, catalogVars, namesVars, opsVars, uiVars>>

----------------------------------------------------------------------------
(* scripts/build-unicode-data.ts: the UCD document *)

\* elements of the flat XML file: a tag and its attributes in document order
UcdElements ==
  << [tag |-> "char", attrs |-> <<[name |-> "cp", value |-> <<"0", "0", "4", "1">>], [name |-> "na", value |-> <<"L", "A", "T", "I", "N", " ", "C", "A", "P", "I", "T", "A", "L", " ", "L", "E", "T", "T", "E", "R", " ", "A">>], [name |-> "na1", value |-> <<>>]>>],
     [tag |-> "char", attrs |-> <<[name |-> "cp", value |-> <<"0", "0", "4", "1">>], [name |-> "na", value |-> <<"L", "E", "T", "T", "E", "R", "-", "#">>]>>],
     [tag |-> "char", attrs |-> <<[name |-> "cp", value |-> <<"0", "0", "0", "7">>], [name |-> "na", value |-> <<>>], [name |-> "na1", value |-> <<"B", "E", "L", "L">>]>>],
     [tag |-> "char", attrs |-> <<[name |-> "cp", value |-> <<"0", "0", "8", "0">>], [name |-> "na", value |-> <<>>], [name |-> "na1", value |-> <<>>]>>],
     [tag |-> "char", attrs |-> <<[name |-> "cp", value |-> <<"0", "0", "e", "9">>], [name |-> "na", value |-> <<"S", "M", "A", "L", "L", " ", "L", "E", "T", "T", "E", "R", "-", "#">>]>>],
     [tag |-> "char", attrs |-> <<[name |-> "cp", value |-> <<"A", "C", "0", "0">>], [name |-> "na", value |-> <<>>]>>],
     [tag |-> "char", attrs |-> <<[name |-> "cp", value |-> <<"A", "C", "0", "1">>], [name |-> "na", value |-> <<>>], [name |-> "na1", value |-> <<"O", "L", "D", " ", "N", "A", "M", "E">>]>>],
     [tag |-> "char", attrs |-> <<[name |-> "cp", value |-> <<"D", "7", "A", "4">>], [name |-> "na", value |-> <<>>]>>],
     [tag |-> "char", attrs |-> <<[name |-> "first-cp", value |-> <<"3", "4", "0", "0">>], [name |-> "last-cp", value |-> <<"4", "D", "B", "F">>], [name |-> "na", value |-> <<"C", "J", "K", " ", "U", "N", "I", "F", "I", "E", "D", " ", "I", "D", "E", "O", "G", "R", "A", "P", "H", "-", "#">>]>>],
     [tag |-> "char", attrs |-> <<[name |-> "cp", value |-> <<"4", "E", "0", "0">>], [name |-> "age", value |-> <<"1", ".", "1">>]>>],
     [tag |-> "char", attrs |-> <<[name |-> "cp", value |-> <<"9", "F", "F", "F">>], [name |-> "na", value |-> <<"X", "-", "#", "-", "#">>]>>],
     [tag |-> "char", attrs |-> <<[name |-> "cp", value |-> <<"0", "8", "7", "0">>], [name |-> "na", value |-> <<"A", "R", "A", "B", "I", "C", " ", "L", "E", "T", "T", "E", "R", " ", "A", "L", "E", "F">>]>>],
     [tag |-> "char", attrs |-> <<[name |-> "cp", value |-> <<"2", "0", "0", "0", "0">>], [name |-> "na", value |-> <<>>]>>],
     [tag |-> "char", attrs |-> <<[name |-> "cp", value |-> <<"1", "F", "6", "0", "0">>], [name |-> "na", value |-> <<"G", "R", "I", "N", "N", "I", "N", "G", " ", "F", "A", "C", "E">>], [name |-> "na1", value |-> <<"O", "L", "D", " ", "F", "A", "C", "E">>]>>],
     [tag |-> "char", attrs |-> <<[name |-> "age", value |-> <<"1", ".", "1">>], [name |-> "na", value |-> <<"N", "O", " ", "C", "O", "D", "E", " ", "P", "O", "I", "N", "T">>]>>],
     [tag |-> "reserved", attrs |-> <<[name |-> "cp", value |-> <<"0", "3", "7", "8">>], [name |-> "na", value |-> <<"R", "E", "S", "E", "R", "V", "E", "D">>]>>] >>

\* the code point an element is about, for telling elements apart
ElementCodePoint(element) ==
  LET hits == {i \in DOMAIN element.attrs : element.attrs[i].name \in {"cp", "first-cp"}}
  IN IF hits = {} THEN <<>> ELSE toUpperCase(element.attrs[Min(hits)].value)

\* the elements at the given places of UcdElements, in that order
Pick(places) ==
  LET nth(k) == CHOOSE i \in places : Cardinality({j \in places : j < i}) = k - 1
  IN [k \in 1..Cardinality(places) |-> UcdElements[nth(k)]]

\* documents of at most MaxRecords elements; as in the UCD, no code point has
\* two elements
Documents ==
  {Pick(places) : places \in
     {P \in SUBSET DOMAIN UcdElements :
        /\ Cardinality(P) <= MaxRecords
        /\ \A i, j \in P :
             i # j => \/ ElementCodePoint(UcdElements[i]) = <<>>
                      \/ ElementCodePoint(UcdElements[i]) # ElementCodePoint(UcdElements[j])}}

----------------------------------------------------------------------------
(* scripts/build-unicode-data.ts: parseUCDXml *)

\* /<char[^>]+>/g
charRegex(element) == element.tag = "char"

IsHexText(value) == value # <<>> /\ \A i \in DOMAIN value : IsRadixDigit(value[i])

NoMatch == [found |-> FALSE, value |-> <<>>]
Match(value) == [found |-> TRUE, value |-> value]

\* the first attribute, in document order, that a regex of the shape
\* /\bNAME="(VALUE)"/ matches: \b lets NAME start after a hyphen; hexOnly
\* tells VALUE is [0-9A-Fa-f]+ rather than [^"]*
RegexExec(element, names, hexOnly) ==
  LET hits == {i \in DOMAIN element.attrs :
                 /\ element.attrs[i].name \in names
                 /\ hexOnly => IsHexText(element.attrs[i].value)}
  IN IF hits = {} THEN NoMatch ELSE Match(element.attrs[Min(hits)].value)

\* /\bcp="([0-9A-Fa-f]+)"/
cpRegex(element) == RegexExec(element, {"cp", "first-cp", "last-cp"}, TRUE)

\* /\bna="([^"]*)"/
naRegex(element) == RegexExec(element, {"na"}, FALSE)

\* /\bna1="([^"]*)"/
na1Regex(element) == RegexExec(element, {"na1"}, FALSE)

\* only the first occurrence replaced
replaceAll_FirstOnly(s, c, replacement) ==
  LET hits == {i \in DOMAIN s : s[i] = c}
  IN IF hits = {} THEN s
     ELSE SubSeq(s, 1, Min(hits) - 1) \o replacement \o SubSeq(s, Min(hits) + 1, Len(s))

\* s.replace(/c/g, replacement)
RECURSIVE replaceAll(_, _, _)
replaceAll(s, c, replacement) ==
  LET hits == {i \in DOMAIN s : s[i] = c}
  IN IF hits = {} THEN s
     ELSE SubSeq(s, 1, Min(hits) - 1) \o replacement
            \o replaceAll(SubSeq(s, Min(hits) + 1, Len(s)), c, replacement)

\* parseUCDXml, loop body: the name of the element whose cp attribute reads
\* cpMatch; the empty text when it has none
charName(element, cpMatch) ==
  LET cp == parseInt16(cpMatch).value
      naMatch == naRegex(element)
      na1Match == na1Regex(element)
      name == IF naMatch.found /\ naMatch.value # <<>>
                THEN IF includes(naMatch.value, <<"#">>)
                       THEN replaceAll(naMatch.value, "#", toUpperCase(cpMatch))
                       ELSE naMatch.value
              ELSE IF na1Match.found /\ na1Match.value # <<>>
                THEN na1Match.value
              ELSE <<>>
  IN IF name # <<>> THEN name
     ELSE IF isHangulSyllable(cp) THEN getHangulSyllableName(cp)
     ELSE IF isCJKUnifiedIdeograph(cp) THEN getCJKUnifiedIdeographName(cp)
     ELSE <<>>

\* data[key] = name
Put(data, key, name) ==
  [k \in DOMAIN data \cup {key} |-> IF k = key THEN name ELSE data[k]]

\* blockDataMap.set(block.slug, {}) for every block
EmptyBlockDataMap ==
  [slug \in {BuildBlocks[i].slug : i \in DOMAIN BuildBlocks} |-> EmptyEntries]

\* parseUCDXml, one turn of the loop
parseElement(element, maps) ==
  IF ~charRegex(element) THEN maps
  ELSE LET cpMatch == cpRegex(element)
       IN IF ~cpMatch.found THEN maps
          ELSE LET name == charName(element, cpMatch.value)
                   block == findBlockForCodePoint(parseInt16(cpMatch.value).value)
               IN IF name = <<>> \/ block = 0 THEN maps
                  ELSE [maps EXCEPT ![BuildBlocks[block].slug] =
                          Put(@, toUpperCase(cpMatch.value), name)]

RECURSIVE parseElements(_, _)
parseElements(elements, maps) ==
  IF elements = <<>> THEN maps
  ELSE parseElements(Tail(elements), parseElement(Head(elements), maps))

parseUCDXml(xml) == parseElements(xml, EmptyBlockDataMap)

----------------------------------------------------------------------------
(* scripts/build-unicode-data.ts: generateAlgorithmicNames, writeBlockFiles *)

HangulSlug == <<"h", "a", "n", "g", "u", "l", "-", "s", "y", "l", "l", "a", "b", "l", "e", "s">>
CJKBlockName == <<"C", "J", "K", " ", "U", "n", "i", "f", "i", "e", "d", " ", "I", "d", "e", "o", "g", "r", "a", "p", "h">>

\* first and last code point of the blocks the backfill walks, and the last
\* Hangul syllable
LoopEdges ==
  UNION {{BuildBlocks[i].start, BuildBlocks[i].end} :
           i \in {j \in DOMAIN BuildBlocks :
                    \/ BuildBlocks[j].slug = HangulSlug
                    \/ includes(CharsOf[BuildBlocks[j].name], CJKBlockName)}}
    \cup {HANGUL_SYLLABLE_BASE + HANGUL_S_COUNT - 1}

\* the code points the loops are followed at: those within Margin of an edge
LoopCodePoints(block) ==
  {cp \in UNION {(edge - Margin)..(edge + Margin) : edge \in LoopEdges} :
     cp >= block.start /\ cp <= block.end}

\* the loop stopping one short of block.end
LoopNames_EndExclusive(block, hangul) ==
  LET cps == {cp \in LoopCodePoints(block) :
                /\ cp < block.end
                /\ IF hangul THEN isHangulSyllable(cp) ELSE isCJKUnifiedIdeograph(cp)}
      hex(cp) == toUpperCase(numberToString16(cp))
      name(cp) == IF hangul THEN getHangulSyllableName(cp)
                  ELSE getCJKUnifiedIdeographName(cp)
  IN [k \in {hex(cp) : cp \in cps} |-> name(CHOOSE cp \in cps : hex(cp) = k)]

\* for (cp = block.start; cp <= block.end; cp++): the key hex and the name
\* computed for every code point that passes the test of the loop, which is
\* isHangulSyllable in the first loop and isCJKUnifiedIdeograph in the second
LoopNames(block, hangul) ==
  LET cps == {cp \in LoopCodePoints(block) :
                IF hangul THEN isHangulSyllable(cp) ELSE isCJKUnifiedIdeograph(cp)}
      hex(cp) == toUpperCase(numberToString16(cp))
      name(cp) == IF hangul THEN getHangulSyllableName(cp)
                  ELSE getCJKUnifiedIdeographName(cp)
  IN [k \in {hex(cp) : cp \in cps} |-> name(CHOOSE cp \in cps : hex(cp) = k)]

\* the name written whether or not the key holds one
backfillBlock_Overwrites(data, names) ==
  [k \in DOMAIN data \cup DOMAIN names |->
     IF k \in DOMAIN names THEN names[k] ELSE data[k]]

\* if (!data[hex]) data[hex] = name, for every key of the loop
backfillBlock(data, names) ==
  [k \in DOMAIN data \cup DOMAIN names |->
     IF k \in DOMAIN data /\ data[k] # <<>> THEN data[k] ELSE names[k]]

\* the block with the given slug; slugs are those of BuildBlocks
BlockOfSlug(slug) == BuildBlocks[FindSlug(BuildBlocks, slug, 1)]

generateAlgorithmicNames(maps) ==
  LET afterHangul ==
        [slug \in DOMAIN maps |->
           IF slug = HangulSlug
             THEN backfillBlock(maps[slug], LoopNames(BlockOfSlug(slug), TRUE))
             ELSE maps[slug]]
  IN [slug \in DOMAIN maps |->
        IF includes(CharsOf[BlockOfSlug(slug).name], CJKBlockName)
          THEN backfillBlock(afterHangul[slug], LoopNames(BlockOfSlug(slug), FALSE))
          ELSE afterHangul[slug]]

\* <slug>.json in OUTPUT_DIR: not there, left by an earlier run, written by this run
NoFile == [state |-> "absent", entries |-> EmptyEntries]
OldFile(entries) == [state |-> "old", entries |-> entries]
WrittenFile(entries) == [state |-> "written", entries |-> entries]

\* maps without a name are skipped; the others replace the file
writeBlockFiles(maps, dir) ==
  [slug \in DOMAIN dir |->
     IF slug \in DOMAIN maps /\ DOMAIN maps[slug] # {}
       THEN WrittenFile(maps[slug])
       ELSE dir[slug]]

----------------------------------------------------------------------------
(* scripts/build-unicode-data.ts: downloadFile, unzipFile, main *)

\* the response was an error status, and the body is written all the same
downloadFile_IgnoresStatus(response) ==
  [threw |-> response = "reject", zip |-> response # "reject"]

\* the body is written before response.ok is looked at
downloadFile_WritesBeforeCheck(response) ==
  [threw |-> response # "ok", zip |-> response # "reject"]

\* fetch rejects, or resolves to a response that is ok or not; the archive is
\* written only after the whole body has arrived
downloadFile(response) ==
  [threw |-> response # "ok", zip |-> response = "ok"]

\* unzip is run; if it fails jar is run; then an .xml file is looked for
unzipFile(unzip, jar, archiveHasXml) ==
  [commands |-> IF unzip = "ok" THEN <<"unzip">> ELSE <<"unzip", "jar">>,
   threw |-> ~(unzip = "ok" \/ jar = "ok") \/ ~archiveHasXml]

\* OUTPUT_DIR before the run: empty, or holding a file of an earlier run
EmptyDir == [slug \in DOMAIN EmptyBlockDataMap |-> NoFile]
OldDir ==
  [EmptyDir EXCEPT ![createSlug(CharsOf["Basic Latin (ASCII)"])] =
     OldFile([k \in {<<"0", "0", "4", "1">>} |-> <<"O", "L", "D">>])]

\* a run in which every step succeeds
GoodEnv(xml) ==
  [xml |-> xml, fetch |-> "ok", unzip |-> "ok", jar |-> "ok", archiveHasXml |-> TRUE,
   cached |-> FALSE, outputDir |-> EmptyDir]

\* the document of the runs in which steps may fail
FailureDocument == Pick({1, 6})

BuildEnvs ==
  {GoodEnv(xml) : xml \in Documents}
    \cup [xml : {FailureDocument}, fetch : {"ok", "httpError", "reject"},
          unzip : {"ok", "fail"}, jar : {"ok", "fail"}, archiveHasXml : BOOLEAN,
          cached : BOOLEAN, outputDir : {EmptyDir, OldDir}]

\* main has not started: no document has been parsed and OUTPUT_DIR has not
\* been looked at
IdlePipeline ==
  /\ env = [GoodEnv(<<>>) EXCEPT !.outputDir = <<>>]
  /\ stage = "idle"
  /\ log = <<>>
  /\ zipCached = FALSE
  /\ blockDataMap = <<>>
  /\ outputDir = <<>>
  /\ exitCode = 0
  /\ runs = <<>>

\* nothing of the build has run
IdleBuild ==
  /\ syllable = NoSyllable
  /\ IdlePipeline

\* the archive is fetched whether or not the cache holds one
acquire_ChecksNothing(cached) == "download"

\* main: if (!existsSync(zipPath)) the archive is downloaded, else the file
\* at zipPath is used as it is
acquire(cached) == IF ~cached THEN "download" ELSE "cached"

\* main: the archive is not in the cache and is downloaded; a throw reaches
\* main().catch, which exits with status 1
DownloadFile ==
  /\ stage = "start"
  /\ acquire(zipCached) = "download"
  /\ LET ret == downloadFile(env.fetch)
     IN /\ log' = log \o <<"fetch">>
        /\ zipCached' = ret.zip
        /\ stage' = IF ret.threw THEN "failed" ELSE "extract"
        /\ exitCode' = IF ret.threw THEN 1 ELSE exitCode
  /\ UNCHANGED <<syllable, env, blockDataMap, outputDir,
                 runs, parseVars, catalogVars, namesVars, opsVars, uiVars>>

\* main: the archive is in the cache
UseCachedArchive ==
  /\ stage = "start"
  /\ acquire(zipCached) = "cached"
  /\ stage' = "extract"
  /\ UNCHANGED <<syllable, env, log, zipCached, blockDataMap, outputDir, exitCode,
                 runs, parseVars, catalogVars, namesVars, opsVars, uiVars>>

UnzipFile ==
  /\ stage = "extract"
  /\ LET ret == unzipFile(env.unzip, env.jar, env.archiveHasXml)
     IN /\ log' = log \o ret.commands
        /\ stage' = IF ret.threw THEN "failed" ELSE "parse"
        /\ exitCode' = IF ret.threw THEN 1 ELSE exitCode
  /\ UNCHANGED <<syllable, env, zipCached, blockDataMap, outputDir,
                 runs, parseVars, catalogVars, namesVars, opsVars, uiVars>>

ParseUCDXml ==
  /\ stage = "parse"
  /\ blockDataMap' = parseUCDXml(env.xml)
  /\ log' = log \o <<"parse">>
  /\ stage' = "generate"
  /\ UNCHANGED <<syllable, env, zipCached, outputDir, exitCode,
                 runs, parseVars, catalogVars, namesVars, opsVars, uiVars>>

GenerateAlgorithmicNames ==
  /\ stage = "generate"
  /\ blockDataMap' = generateAlgorithmicNames(blockDataMap)
  /\ log' = log \o <<"generate">>
  /\ stage' = "write"
  /\ UNCHANGED <<syllable, env, zipCached, outputDir, exitCode,
                 runs, parseVars, catalogVars, namesVars, opsVars, uiVars>>

WriteBlockFiles ==
  /\ stage = "write"
  /\ outputDir' = writeBlockFiles(blockDataMap, outputDir)
  /\ log' = log \o <<"write">>
  /\ stage' = "done"
  /\ UNCHANGED <<syllable, env, zipCached, blockDataMap, exitCode,
                 runs, parseVars, catalogVars, namesVars, opsVars, uiVars>>

\* what a finished run leaves behind: whether zipPath existed when it started,
\* what fetch did if called, the steps the run took, whether zipPath exists
\* now, and the exit status
RunSummary ==
  [cached |-> env.cached, fetch |-> env.fetch, log |-> log, stored |-> zipCached,
   exitCode |-> exitCode]

\* the files a run wrote are, for the next run, files of an earlier run
leftBehind(dir) ==
  [slug \in DOMAIN dir |->
     IF dir[slug].state = "written" THEN OldFile(dir[slug].entries) ELSE dir[slug]]

\* what fetch and the extractors will do in a later run; CACHE_DIR and
\* OUTPUT_DIR are as the earlier runs left them. Either unzip extracts the
\* archive or neither unzip nor jar does.
RunEnvs(cached, dir) ==
  [xml : {FailureDocument}, fetch : {"ok", "httpError", "reject"},
   unzip : {"ok", "fail"}, jar : {"fail"}, archiveHasXml : {TRUE},
   cached : {cached}, outputDir : {dir}]

\* the script is run again after a run that completed or failed
StartRun ==
  /\ stage \in {"done", "failed"}
  /\ Len(runs) + 1 < MaxRuns
  /\ runs' = Append(runs, RunSummary)
  /\ outputDir' = leftBehind(outputDir)
  /\ env' \in RunEnvs(zipCached, leftBehind(outputDir))
  /\ stage' = "start"
  /\ log' = <<>>
  /\ blockDataMap' = <<>>
  /\ exitCode' = 0
  /\ UNCHANGED <<syllable, zipCached, parseVars, catalogVars, namesVars, opsVars, uiVars>>

----------------------------------------------------------------------------
(* routes/block.tsx, routes/favorites.tsx: handleSearchChange *)

\* setTimeout(.., 300)
DebounceMs == 300

IdleSearch ==
  /\ page = "none"
  /\ searchBox = <<>>
  /\ timers = <<>>
  /\ navigations = <<>>
  /\ keys = <<>>
  /\ clock = 0

\* texts typed into the search box, none of them a hex search but the empty one
SearchTexts == {<<>>, <<"g">>, <<"g", "r">>, <<"g", "r", "i">>}

\* the block page always sets a timeout; the favorites page only for a name
\* search of two characters or more
setsTimeout(where, query) ==
  \/ where = "block"
  \/ where = "favorites" /\ Len(query) >= 2 /\ parseHexSearch(query).isNull

\* handleSearchChange(query), called by the search box's onChange, which drops
\* the function the handler returns: no clearTimeout is ever called
HandleSearchChange(query) ==
  /\ Len(keys) < MaxKeys
  /\ query # searchBox
  /\ searchBox' = query
  /\ keys' = Append(keys, [at |-> clock, query |-> query])
  /\ timers' = IF setsTimeout(page, query)
                 THEN Append(timers, [due |-> clock + DebounceMs,
                                      key |-> Len(keys) + 1, query |-> query])
                 ELSE timers
  /\ UNCHANGED <<page, navigations, clock,
                 parseVars, catalogVars, namesVars, opsVars, buildVars, hookVars, favVars, toastVars, snippets>>

\* the oldest timeout that is due runs its callback, which calls navigate
RunTimeout ==
  /\ timers # <<>>
  /\ Head(timers).due <= clock
  /\ navigations' = Append(navigations, [at |-> clock, key |-> Head(timers).key,
                                         query |-> Head(timers).query])
  /\ timers' = Tail(timers)
  /\ UNCHANGED <<page, searchBox, keys, clock,
                 parseVars, catalogVars, namesVars, opsVars, buildVars, hookVars, favVars, toastVars, snippets>>

\* a tenth of a second passes once every timeout that is due has run
Tick ==
  /\ clock < MaxClock
  /\ timers # <<>> => Head(timers).due > clock
  /\ clock' = clock + 100
  /\ UNCHANGED <<page, searchBox, timers, navigations, keys,
                 parseVars, catalogVars, namesVars, opsVars, buildVars, hookVars, favVars, toastVars, snippets>>

----------------------------------------------------------------------------
(* hooks/useCharacterNames.ts *)

Hooks == 1..MaxHooks
HookSlugs == NameSlugs

\* a CharacterNames value: {} or the content of /unicode-data/<slug>.json,
\* which is named by its slug
NoNames == "{}"
NamesOf(slug) == slug

Unmounted ==
  [mounted |-> FALSE, blockSlug |-> "", names |-> NoNames, isLoading |-> FALSE,
   effectPending |-> FALSE, changes |-> 0]

\* the slug changes made so far by the instances 1..h
RECURSIVE changesUpTo(_)
changesUpTo(h) == IF h = 0 THEN 0 ELSE hooks[h].changes + changesUpTo(h - 1)

IdleHook ==
  /\ hooks = [h \in Hooks |-> Unmounted]
  /\ hookCache = [slug \in HookSlugs |-> [has |-> FALSE, value |-> NoNames]]
  /\ loadingPromises = [slug \in HookSlugs |-> 0]
  /\ promises = <<>>
  /\ callbacks = {}

otherVars ==
  <<parseVars, catalogVars, namesVars, opsVars, buildVars, searchVars, favVars, toastVars,
    snippets>>

\* first render: the useState initialisers read the cache; the effect is
\* scheduled. Instances are numbered in the order they mount.
Mount(h, slug) ==
  /\ ~hooks[h].mounted
  /\ \A g \in Hooks : g < h => hooks[g].mounted
  /\ hooks' = [hooks EXCEPT ![h] =
                 [mounted |-> TRUE, blockSlug |-> slug,
                  names |-> IF hookCache[slug].has THEN hookCache[slug].value ELSE NoNames,
                  isLoading |-> ~hookCache[slug].has,
                  effectPending |-> TRUE, changes |-> 0]]
  /\ UNCHANGED <<hookCache, loadingPromises, promises, callbacks, otherVars>>

\* a render with another blockSlug: state is kept, the effect is scheduled
\* because its dependency changed
ChangeSlug(h, slug) ==
  /\ hooks[h].mounted
  /\ ~hooks[h].effectPending
  /\ changesUpTo(MaxHooks) < MaxChanges
  /\ slug # hooks[h].blockSlug
  /\ hooks' = [hooks EXCEPT ![h].blockSlug = slug, ![h].effectPending = TRUE,
                              ![h].changes = @ + 1]
  /\ UNCHANGED <<hookCache, loadingPromises, promises, callbacks, otherVars>>

fetchesOf(slug) == Cardinality({i \in DOMAIN promises : promises[i].slug = slug})

\* the body of useEffect(.., [blockSlug])
RunEffect(h) ==
  /\ hooks[h].effectPending
  /\ LET slug == hooks[h].blockSlug
     IN IF hookCache[slug].has
          THEN /\ hooks' = [hooks EXCEPT ![h].names = hookCache[slug].value,
                                          ![h].isLoading = FALSE,
                                          ![h].effectPending = FALSE]
               /\ UNCHANGED <<loadingPromises, promises, callbacks>>
        ELSE IF loadingPromises[slug] # 0
          THEN /\ callbacks' = callbacks \cup {[hook |-> h, promise |-> loadingPromises[slug]]}
               /\ hooks' = [hooks EXCEPT ![h].effectPending = FALSE]
               /\ UNCHANGED <<loadingPromises, promises>>
        ELSE /\ fetchesOf(slug) < MaxFetches
             /\ hooks' = [hooks EXCEPT ![h].isLoading = TRUE, ![h].effectPending = FALSE]
             /\ promises' = Append(promises, [slug |-> slug, phase |-> "fetching",
                                              data |-> NoNames])
             /\ loadingPromises' = [loadingPromises EXCEPT ![slug] = Len(promises) + 1]
             /\ callbacks' = callbacks \cup {[hook |-> h, promise |-> Len(promises) + 1]}
  /\ UNCHANGED <<hookCache, otherVars>>

\* the failed load is not recorded in the cache
settle_FailureNotCached(cache, slug, ok) ==
  IF ok THEN [cache EXCEPT ![slug] = [has |-> TRUE, value |-> NamesOf(slug)]]
  ELSE cache

\* .then(data => namesCache.set(blockSlug, data)) when the response is ok and
\* parses; otherwise .catch(() => namesCache.set(blockSlug, {}))
settle(cache, slug, ok) ==
  [cache EXCEPT ![slug] = [has |-> TRUE, value |-> IF ok THEN NamesOf(slug) ELSE NoNames]]

\* the fetch of a promise completes, well or not, and the cache is written
Settle(p, ok) ==
  /\ promises[p].phase = "fetching"
  /\ hookCache' = settle(hookCache, promises[p].slug, ok)
  /\ promises' = [promises EXCEPT ![p].phase = "cached",
                                  ![p].data = IF ok THEN NamesOf(promises[p].slug) ELSE NoNames]
  /\ UNCHANGED <<hooks, loadingPromises, callbacks, otherVars>>

\* .finally(() => loadingPromises.delete(blockSlug)); loadPromise is resolved
Finally(p) ==
  /\ promises[p].phase = "cached"
  /\ loadingPromises' = [loadingPromises EXCEPT ![promises[p].slug] = 0]
  /\ promises' = [promises EXCEPT ![p].phase = "resolved"]
  /\ UNCHANGED <<hooks, hookCache, callbacks, otherVars>>

\* loadPromise.then(data => { setNames(data); setIsLoading(false) })
RunCallback(cb) ==
  /\ cb \in callbacks
  /\ promises[cb.promise].phase = "resolved"
  /\ hooks' = [hooks EXCEPT ![cb.hook].names = promises[cb.promise].data,
                              ![cb.hook].isLoading = FALSE]
  /\ callbacks' = callbacks \ {cb}
  /\ UNCHANGED <<hookCache, loadingPromises, promises, otherVars>>

----------------------------------------------------------------------------
(* hooks/useFavorites.ts *)

\* code points offered to the favorites operations
FavCodes == {65, 128512}

\* Number.prototype.toString(10) of a non-negative integer
RECURSIVE toDecimal(_)
toDecimal(n) ==
  LET digit == RadixDigits[(n % 10) + 1]
  IN IF n < 10 THEN <<digit>> ELSE toDecimal(n \div 10) \o <<digit>>

\* JSON.stringify of an array of numbers
RECURSIVE stringifyItems(_)
stringifyItems(list) ==
  IF list = <<>> THEN <<>>
  ELSE IF Len(list) = 1 THEN toDecimal(list[1])
  ELSE toDecimal(list[1]) \o <<",">> \o stringifyItems(Tail(list))

stringify(list) == <<"[">> \o stringifyItems(list) \o <<"]">>

IsDecimal(t) == t # <<>> /\ \A i \in DOMAIN t : t[i] \in Digits

RECURSIVE decimalValue(_)
decimalValue(t) ==
  IF t = <<>> THEN 0
  ELSE 10 * decimalValue(SubSeq(t, 1, Len(t) - 1)) + DigitValue(t[Len(t)])

\* the items of "a,b,c": the texts between the commas
RECURSIVE splitItems(_)
splitItems(t) ==
  LET commas == {i \in DOMAIN t : t[i] = ","}
  IN IF commas = {} THEN <<t>>
     ELSE <<SubSeq(t, 1, Min(commas) - 1)>> \o splitItems(SubSeq(t, Min(commas) + 1, Len(t)))

\* JSON.parse of a text: an array of numbers, or a SyntaxError
parse(t) ==
  IF Len(t) < 2 \/ t[1] # "[" \/ t[Len(t)] # "]" THEN [threw |-> TRUE, list |-> <<>>]
  ELSE LET inner == SubSeq(t, 2, Len(t) - 1)
           items == splitItems(inner)
       IN IF inner = <<>> THEN [threw |-> FALSE, list |-> <<>>]
          ELSE IF \E i \in DOMAIN items : ~IsDecimal(items[i])
            THEN [threw |-> TRUE, list |-> <<>>]
          ELSE [threw |-> FALSE, list |-> [i \in DOMAIN items |-> decimalValue(items[i])]]

\* localStorage.getItem(STORAGE_KEY): null, or the text stored
NoItem == [has |-> FALSE, text |-> <<>>]
Item(t) == [has |-> TRUE, text |-> t]

\* lists an earlier session may have stored
StoredLists ==
  {<<>>} \cup {<<c>> : c \in FavCodes} \cup {<<c, e>> : c \in FavCodes, e \in FavCodes}

\* what the storage key may hold at page load: nothing, the empty text, a
\* text that is not JSON, or a stored list
StoredItems ==
  {NoItem, Item(<<>>), Item(<<"[", "6", "5">>)} \cup {Item(stringify(l)) : l \in StoredLists}

\* prev.includes(code)
includesCode(list, code) == \E i \in DOMAIN list : list[i] = code

\* prev.filter((c) => c !== code)
without(list, code) == SelectSeq(list, LAMBDA c : c # code)

\* the updater of addFavorite appends without looking
addUpdater_AlwaysAppends(prev, code) == Append(prev, code)

\* the updaters handed to setFavorites
toggleUpdater(prev, code) ==
  IF includesCode(prev, code) THEN without(prev, code) ELSE Append(prev, code)

addUpdater(prev, code) ==
  IF includesCode(prev, code) THEN prev ELSE Append(prev, code)

removeUpdater(prev, code) == without(prev, code)

\* isFavorite(code), with the favorites of the latest render
isFavorite(code) == includesCode(favorites, code)

\* one queued state update applied to the state [favorites, isLoaded, fresh];
\* fresh says that a state value is no longer the one of the last render
applyUpdate(state, u) ==
  IF u.op = "setFavorites" THEN [state EXCEPT !.favorites = u.list, !.fresh = TRUE]
  ELSE IF u.op = "setIsLoaded" THEN [state EXCEPT !.isLoaded = TRUE, !.fresh = @ \/ ~state.isLoaded]
  ELSE IF u.op = "toggle"
    THEN [state EXCEPT !.favorites = toggleUpdater(@, u.code), !.fresh = TRUE]
  ELSE IF u.op = "add"
    THEN [state EXCEPT !.favorites = addUpdater(@, u.code),
                       !.fresh = @ \/ ~includesCode(state.favorites, u.code)]
  ELSE [state EXCEPT !.favorites = removeUpdater(@, u.code), !.fresh = TRUE]

RECURSIVE applyUpdates(_, _)
applyUpdates(state, us) ==
  IF us = <<>> THEN state ELSE applyUpdates(applyUpdate(state, Head(us)), Tail(us))

IdleFavorites ==
  /\ storage = NoItem
  /\ favorites = <<>>
  /\ isLoaded = FALSE
  /\ updates = <<>>
  /\ effects = <<>>
  /\ writes = <<>>
  /\ loadRead = [done |-> FALSE, item |-> NoItem]
  /\ calls = <<>>

notFavVars ==
  <<parseVars, catalogVars, namesVars, opsVars, buildVars, searchVars, hookVars, toastVars,
    snippets>>

\* the load effect: the updates it queues after reading the item
loadEffect(saved) ==
  LET parsed == parse(saved.text)
  IN IF saved.has /\ saved.text # <<>> /\ ~parsed.threw
       THEN <<[op |-> "setFavorites", list |-> parsed.list, code |-> 0],
              [op |-> "setIsLoaded", list |-> <<>>, code |-> 0]>>
       ELSE <<[op |-> "setIsLoaded", list |-> <<>>, code |-> 0]>>

\* the save effect writes whether or not the list has been loaded
saveEffect_Unguarded(closure) == [writes |-> TRUE, item |-> Item(stringify(closure.favorites))]

\* the save effect, with the favorites and isLoaded of the render it belongs to
saveEffect(closure) ==
  IF closure.isLoaded THEN [writes |-> TRUE, item |-> Item(stringify(closure.favorites))]
  ELSE [writes |-> FALSE, item |-> NoItem]

\* the oldest pending effect runs
RunLoadEffect ==
  /\ effects # <<>>
  /\ Head(effects).effect = "load"
  /\ effects' = Tail(effects)
  /\ loadRead' = [done |-> TRUE, item |-> storage]
  /\ updates' = updates \o loadEffect(storage)
  /\ UNCHANGED <<storage, favorites, isLoaded, writes, calls, notFavVars>>

RunSaveEffect ==
  /\ effects # <<>>
  /\ Head(effects).effect = "save"
  /\ effects' = Tail(effects)
  /\ LET ret == saveEffect(Head(effects))
     IN /\ storage' = IF ret.writes THEN ret.item ELSE storage
        /\ writes' = IF ret.writes
                       THEN Append(writes, [text |-> ret.item.text, afterLoad |-> loadRead.done,
                                            calls |-> calls])
                       ELSE writes
  /\ UNCHANGED <<favorites, isLoaded, updates, loadRead, calls, notFavVars>>

\* the component renders again with the queued updates applied, the pending
\* effects having run; the save effect is scheduled when favorites or
\* isLoaded is a new value
Render ==
  /\ updates # <<>>
  /\ effects = <<>>
  /\ LET state == applyUpdates([favorites |-> favorites, isLoaded |-> isLoaded,
                                fresh |-> FALSE], updates)
     IN /\ favorites' = state.favorites
        /\ isLoaded' = state.isLoaded
        /\ effects' = IF state.fresh
                        THEN <<[effect |-> "save", favorites |-> state.favorites,
                                isLoaded |-> state.isLoaded]>>
                        ELSE <<>>
  /\ updates' = <<>>
  /\ UNCHANGED <<storage, writes, loadRead, calls, notFavVars>>

\* toggleFavorite(code), addFavorite(code), removeFavorite(code): each queues
\* an updater
CallFavorite(op, code) ==
  /\ Len(calls) < MaxCalls
  /\ calls' = Append(calls, [op |-> op, code |-> code])
  /\ updates' = Append(updates, [op |-> op, list |-> <<>>, code |-> code])
  /\ UNCHANGED <<storage, favorites, isLoaded, effects, writes, loadRead, notFavVars>>

----------------------------------------------------------------------------
(* components/ui/Toast.tsx, routes/char.tsx: the toast of the character page *)

\* setTimeout(onClose, 2000)
ToastMs == 2000

NoTimer == [set |-> FALSE, due |-> 0]

IdleToast ==
  /\ toastMsg = FALSE
  /\ toastTimer = NoTimer
  /\ toastShown = [ever |-> FALSE, at |-> 0, closedAt |-> 0]
  /\ moves = 0

notToastVars ==
  <<parseVars, catalogVars, namesVars, opsVars, buildVars, hookVars, favVars,
    page, searchBox, timers, navigations, keys, snippets>>

\* the Toast effect, run when the component mounts and whenever onClose is
\* another function than at the last render: the cleanup of the last run
\* clears its timer and a new one is set
toastEffect(now) == [set |-> TRUE, due |-> now + ToastMs]

\* showToast(msg): the page renders the Toast, whose effect runs
ShowToast ==
  /\ ~toastShown.ever
  /\ toastMsg' = TRUE
  /\ toastShown' = [ever |-> TRUE, at |-> clock, closedAt |-> 0]
  /\ toastTimer' = toastEffect(clock)
  /\ UNCHANGED <<moves, clock, notToastVars>>

\* handleMouseMove: setCursorPos renders the page again; the Toast, when
\* shown, gets onClose={() => setToastMsg(null)}, a new function
HandleMouseMove ==
  /\ moves < MaxMoves
  /\ moves' = moves + 1
  /\ toastTimer' = IF toastMsg THEN toastEffect(clock) ELSE toastTimer
  /\ UNCHANGED <<toastMsg, toastShown, clock, notToastVars>>

\* the timer runs onClose: setToastMsg(null), the Toast unmounts
RunToastTimeout ==
  /\ toastTimer.set
  /\ toastTimer.due <= clock
  /\ toastMsg' = FALSE
  /\ toastTimer' = NoTimer
  /\ toastShown' = [toastShown EXCEPT !.closedAt = clock]
  /\ UNCHANGED <<moves, clock, notToastVars>>

\* half a second passes once a timer that is due has run
ToastTick ==
  /\ clock < MaxToastClock
  /\ toastTimer.set => toastTimer.due > clock
  /\ clock' = clock + 500
  /\ UNCHANGED <<toastMsg, toastTimer, toastShown, moves, notToastVars>>

----------------------------------------------------------------------------
(* lib/utils.ts: getCodeSnippets *)

\* String.fromCodePoint(cp): the UTF-16 code units of the string
fromCodePoint(cp) ==
  IF cp < 65536 THEN <<cp>>
  ELSE <<55296 + ((cp - 65536) \div 1024), 56320 + ((cp - 65536) % 1024)>>

IsHighSurrogate(unit) == unit >= 55296 /\ unit <= 56319
IsLowSurrogate(unit) == unit >= 56320 /\ unit <= 57343

\* the characters encodeURIComponent leaves as they are: A-Z a-z 0-9 - _ . ! ~ * ' ( )
UnreservedMarks ==
  [cp \in {45, 95, 46, 33, 126, 42, 39, 40, 41} |->
     CASE cp = 45 -> "-" [] cp = 95 -> "_" [] cp = 46 -> "." [] cp = 33 -> "!"
       [] cp = 126 -> "~" [] cp = 42 -> "*" [] cp = 39 -> "'" [] cp = 40 -> "("
       [] OTHER -> ")"]

IsUnreserved(cp) ==
  \/ cp >= 65 /\ cp <= 90
  \/ cp >= 97 /\ cp <= 122
  \/ cp >= 48 /\ cp <= 57
  \/ cp \in DOMAIN UnreservedMarks

UnreservedChar(cp) ==
  IF cp >= 65 /\ cp <= 90 THEN UpperLetters[cp - 64]
  ELSE IF cp >= 97 /\ cp <= 122 THEN LowerLetters[cp - 96]
  ELSE IF cp >= 48 /\ cp <= 57 THEN RadixDigits[cp - 47]
  ELSE UnreservedMarks[cp]

\* the UTF-8 octets of a code point that is no surrogate
utf8(cp) ==
  IF cp < 128 THEN <<cp>>
  ELSE IF cp < 2048 THEN <<192 + (cp \div 64), 128 + (cp % 64)>>
  ELSE IF cp < 65536
    THEN <<224 + (cp \div 4096), 128 + ((cp \div 64) % 64), 128 + (cp % 64)>>
  ELSE <<240 + (cp \div 262144), 128 + ((cp \div 4096) % 64),
         128 + ((cp \div 64) % 64), 128 + (cp % 64)>>

percentOctet(octet) == <<"%">> \o padStart(toUpperCase(numberToString16(octet)), 2, "0")

RECURSIVE percentOctets(_)
percentOctets(octets) ==
  IF octets = <<>> THEN <<>> ELSE percentOctet(Head(octets)) \o percentOctets(Tail(octets))

\* encodeURIComponent of a string given by its code units: the text, or a
\* URIError when a surrogate is not half of a pair
RECURSIVE encodeURIComponent(_)
encodeURIComponent(units) ==
  IF units = <<>> THEN [threw |-> FALSE, text |-> <<>>]
  ELSE IF IsHighSurrogate(units[1]) /\ Len(units) >= 2 /\ IsLowSurrogate(units[2])
    THEN LET rest == encodeURIComponent(SubSeq(units, 3, Len(units)))
             cp == 65536 + (units[1] - 55296) * 1024 + (units[2] - 56320)
         IN [threw |-> rest.threw, text |-> percentOctets(utf8(cp)) \o rest.text]
  ELSE IF IsHighSurrogate(units[1]) \/ IsLowSurrogate(units[1])
    THEN [threw |-> TRUE, text |-> <<>>]
  ELSE LET rest == encodeURIComponent(Tail(units))
       IN [threw |-> rest.threw,
           text |-> (IF IsUnreserved(units[1]) THEN <<UnreservedChar(units[1])>>
                     ELSE percentOctets(utf8(units[1]))) \o rest.text]

NoSnippets == [called |-> FALSE, threw |-> FALSE, list |-> <<>>]

\* the six snippets, or the exception that leaves the function
getCodeSnippets(charCode) ==
  LET char == fromCodePoint(charCode)
      hex == toHex(charCode)
      dec == toDecimal(charCode)
      url == encodeURIComponent(char)
  IN IF url.threw THEN [called |-> TRUE, threw |-> TRUE, list |-> <<>>]
     ELSE [called |-> TRUE, threw |-> FALSE,
           list |->
             <<[label |-> "HTML ENTITY", val |-> <<"&", "#", "x">> \o hex \o <<";">>],
               [label |-> "HTML DEC", val |-> <<"&", "#">> \o dec \o <<";">>],
               [label |-> "CSS / JS", val |-> <<"\\">> \o hex],
               [label |-> "JSON", val |-> <<"\\", "u">> \o padStart(hex, 4, "0")],
               [label |-> "PYTHON",
                val |-> <<"u", "\"", "\\", "u">> \o padStart(hex, 4, "0") \o <<"\"">>],
               [label |-> "URL ENC", val |-> url.text]>>]

IdleSnippets == snippets = NoSnippets

\* code points at the edges of the UTF-8 lengths, of the surrogates and of
\* the unreserved characters
SnippetCodes ==
  {0, 32, 33, 39, 40, 41, 42, 45, 46, 47, 48, 57, 58, 64, 65, 90, 91, 95, 96, 97, 122,
   123, 126, 127, 128, 255, 2047, 2048, 55295, 55296, 56319, 56320, 57343, 57344,
   65533, 65535, 65536, 128512, 1114111, 1114112}

\* the code points written as the route parameter: hex, with or without U+
SnippetTexts ==
  {toUpperCase(numberToString16(cp)) : cp \in SnippetCodes}
    \cup {<<"U", "+">> \o toUpperCase(numberToString16(cp)) : cp \in SnippetCodes}
    \cup {<<"z", "z">>}

\* CharacterPage: getCodeSnippets(charCode) with the code point the loader parsed
GetCodeSnippets ==
  /\ cpResult.called
  /\ ~cpResult.isNull
  /\ ~snippets.called
  /\ snippets' = getCodeSnippets(cpResult.value)
  /\ UNCHANGED <<parseVars, catalogVars, namesVars, opsVars, buildVars,
                 searchVars, hookVars, favVars, toastVars>>

IdleUi == IdleSearch /\ IdleHook /\ IdleFavorites /\ IdleToast /\ IdleSnippets

----------------------------------------------------------------------------
(* Specifications *)

InitParse ==
  /\ IdleUi
  /\ text \in Texts
  /\ hexResult = NotCalled
  /\ cpResult = NotCalled
  /\ IdleCatalog
  /\ IdleNames
  /\ IdleOps
  /\ IdleBuild

NextParse == ParseHexSearch \/ ParseCodePoint

SpecParse == InitParse /\ [][NextParse]_vars

InitCatalog ==
  /\ IdleUi
  /\ UNICODE_BLOCKS = LoadedBlocks
  /\ codePoint \in CodePointInputs
  /\ foundBlock = NotLooked
  /\ IdleParse
  /\ IdleNames
  /\ IdleOps
  /\ IdleBuild

NextCatalog == GetBlockByCodePoint

SpecCatalog == InitCatalog /\ [][NextCatalog]_vars

InitNames ==
  /\ IdleUi
  /\ files \in [NameSlugs -> UNION {FileStates(slug) : slug \in NameSlugs}]
  /\ \A slug \in NameSlugs : files[slug] \in FileStates(slug)
  /\ namesCache = [slug \in NameSlugs |-> NotCached]
  /\ fsTouches = [slug \in NameSlugs |-> 0]
  /\ firstLoad = [slug \in NameSlugs |-> NoFirstLoad]
  /\ lastLoad = NoLoad
  /\ lookup = NoLookup
  /\ IdleParse
  /\ IdleCatalog
  /\ IdleOps
  /\ IdleBuild

NextNames ==
  \/ \E slug \in NameSlugs : \E st \in FileStates(slug) : FsChange(slug, st)
  \/ \E slug \in NameSlugs : LoadBlockNames(slug)
  \/ \E charCode \in LookupCodes :
       lastLoad.called /\ GetCharacterName(lastLoad.value, charCode)
  \/ \E slug \in NameSlugs : \E charCode \in LookupCodes : LoadCharacterName(slug, charCode)

SpecNames == InitNames /\ [][NextNames]_vars

InitReaders ==
  /\ IdleUi
  /\ IdleNames
  /\ IdleParse
  /\ IdleCatalog
  /\ IdleOps
  /\ IdleBuild

NextReaders ==
  \/ \E names \in ReaderMaps : \E charCode \in ReaderCodes : GetCharacterName(names, charCode)
  \/ \E names \in ReaderMaps : \E charCode \in ReaderCodes : GetName(names, charCode)

SpecReaders == InitReaders /\ [][NextReaders]_vars

InitOps ==
  /\ IdleUi
  /\ CATEGORIES = LoadedCategories
  /\ call \in OpsRequests
  /\ IdleCatalog
  /\ IdleParse
  /\ IdleNames
  /\ IdleBuild

NextOps ==
  \/ GetBlockBySlug
  \/ GetBlocksByCategory
  \/ SearchBlocks
  \/ GetCharCodesForBlock
  \/ GetBlockByCodePoint
  \/ Sidebar
  \/ BlockPage
  \/ Navigate

SpecOps == InitOps /\ [][NextOps]_vars

InitHangul ==
  /\ IdleUi
  /\ syllable \in {[NoSyllable EXCEPT !.cp = cp] : cp \in SyllableInputs}
  /\ IdlePipeline
  /\ IdleParse
  /\ IdleCatalog
  /\ IdleNames
  /\ IdleOps

NextHangul == GetHangulSyllableName

SpecHangul == InitHangul /\ [][NextHangul]_vars

InitBuild ==
  /\ IdleUi
  /\ env \in BuildEnvs
  /\ stage = "start"
  /\ log = <<>>
  /\ zipCached = env.cached
  /\ blockDataMap = <<>>
  /\ outputDir = env.outputDir
  /\ exitCode = 0
  /\ runs = <<>>
  /\ syllable = NoSyllable
  /\ IdleParse
  /\ IdleCatalog
  /\ IdleNames
  /\ IdleOps

NextBuild ==
  \/ DownloadFile
  \/ UseCachedArchive
  \/ UnzipFile
  \/ ParseUCDXml
  \/ GenerateAlgorithmicNames
  \/ WriteBlockFiles

SpecBuild == InitBuild /\ [][NextBuild]_vars

InitRuns ==
  /\ IdleUi
  /\ env \in RunEnvs(TRUE, EmptyDir) \cup RunEnvs(FALSE, EmptyDir)
  /\ stage = "start"
  /\ log = <<>>
  /\ zipCached = env.cached
  /\ blockDataMap = <<>>
  /\ outputDir = env.outputDir
  /\ exitCode = 0
  /\ runs = <<>>
  /\ syllable = NoSyllable
  /\ IdleParse
  /\ IdleCatalog
  /\ IdleNames
  /\ IdleOps

NextRuns ==
  \/ DownloadFile
  \/ UseCachedArchive
  \/ UnzipFile
  \/ ParseUCDXml
  \/ GenerateAlgorithmicNames
  \/ WriteBlockFiles
  \/ StartRun

SpecRuns == InitRuns /\ [][NextRuns]_vars

InitSearch ==
  /\ IdleHook
  /\ IdleFavorites
  /\ IdleToast
  /\ IdleSnippets
  /\ page \in {"block", "favorites"}
  /\ searchBox = <<>>
  /\ timers = <<>>
  /\ navigations = <<>>
  /\ keys = <<>>
  /\ clock = 0
  /\ IdleParse
  /\ IdleCatalog
  /\ IdleNames
  /\ IdleOps
  /\ IdleBuild

NextSearch ==
  \/ \E query \in SearchTexts : HandleSearchChange(query)
  \/ RunTimeout
  \/ Tick

SpecSearch == InitSearch /\ [][NextSearch]_vars

InitHook ==
  /\ IdleHook
  /\ IdleFavorites
  /\ IdleToast
  /\ IdleSnippets
  /\ IdleSearch
  /\ IdleParse
  /\ IdleCatalog
  /\ IdleNames
  /\ IdleOps
  /\ IdleBuild

NextHook ==
  \/ \E h \in Hooks : \E slug \in HookSlugs : Mount(h, slug)
  \/ \E h \in Hooks : \E slug \in HookSlugs : ChangeSlug(h, slug)
  \/ \E h \in Hooks : RunEffect(h)
  \/ \E p \in DOMAIN promises : \E ok \in BOOLEAN : Settle(p, ok)
  \/ \E p \in DOMAIN promises : Finally(p)
  \/ \E cb \in callbacks : RunCallback(cb)

SpecHook == InitHook /\ [][NextHook]_vars

\* after the first render: the state is the initial one and both effects
\* are pending, in the order they are declared
InitFavorites ==
  /\ storage \in StoredItems
  /\ favorites = <<>>
  /\ isLoaded = FALSE
  /\ updates = <<>>
  /\ effects = <<[effect |-> "load", favorites |-> <<>>, isLoaded |-> FALSE],
                 [effect |-> "save", favorites |-> <<>>, isLoaded |-> FALSE]>>
  /\ writes = <<>>
  /\ loadRead = [done |-> FALSE, item |-> NoItem]
  /\ calls = <<>>
  /\ IdleToast
  /\ IdleSnippets
  /\ IdleSearch
  /\ IdleHook
  /\ IdleParse
  /\ IdleCatalog
  /\ IdleNames
  /\ IdleOps
  /\ IdleBuild

NextFavorites ==
  \/ RunLoadEffect
  \/ RunSaveEffect
  \/ Render
  \/ \E op \in {"toggle", "add", "remove"} : \E code \in FavCodes : CallFavorite(op, code)

SpecFavorites == InitFavorites /\ [][NextFavorites]_vars

InitToast ==
  /\ IdleToast
  /\ IdleSnippets
  /\ IdleSearch
  /\ IdleHook
  /\ IdleFavorites
  /\ IdleParse
  /\ IdleCatalog
  /\ IdleNames
  /\ IdleOps
  /\ IdleBuild

NextToast ==
  \/ ShowToast
  \/ HandleMouseMove
  \/ RunToastTimeout
  \/ ToastTick

SpecToast == InitToast /\ [][NextToast]_vars

InitSnippets ==
  /\ text \in SnippetTexts
  /\ hexResult = NotCalled
  /\ cpResult = NotCalled
  /\ snippets = NoSnippets
  /\ IdleSearch
  /\ IdleHook
  /\ IdleFavorites
  /\ IdleToast
  /\ IdleCatalog
  /\ IdleNames
  /\ IdleOps
  /\ IdleBuild

NextSnippets ==
  \/ ParseCodePoint
  \/ GetCodeSnippets

SpecSnippets == InitSnippets /\ [][NextSnippets]_vars

----------------------------------------------------------------------------
(* Properties of the parsers, checked under SpecParse *)

\* a well-formed hexadecimal numeral: at least one character, hex digits only
IsHexNumeral(s) == s # <<>> /\ \A i \in 1..Len(s) : IsRadixDigit(s[i])

\* the text once one leading U+ or 0x is removed
HexRemainder(t) == replaceLeadingPrefix(t)

\* C1: parseHexSearch returns a code point only for a text that, after one
\* optional leading U+ or 0x, is a hexadecimal numeral with a value in
\* [0, 0x10FFFF]; every other text gives null and is searched by name.
C1_HexSearchOnlyForHexNumerals ==
  (hexResult.called /\ ~hexResult.isNull) =>
    /\ IsHexNumeral(HexRemainder(text))
    /\ DigitsValue(HexRemainder(text)) <= MAX_CODE_POINT
    /\ hexResult.value = DigitsValue(HexRemainder(text))

\* C2: parseHexSearch and parseCodePoint give the same outcome on every text.
C2_SameOutcome ==
  (hexResult.called /\ cpResult.called) => hexResult = cpResult

\* C8: parseCodePoint returns null for every text whose remainder after one
\* optional leading U+ or 0x is empty or holds a character that is not a
\* hex digit.
C8_MalformedHexIsInvalid ==
  (cpResult.called /\ ~IsHexNumeral(HexRemainder(text))) => cpResult = Null

\* C9: for every code point c, every spelling h of c (toHex, or unpadded)
\* and every prefix p of '', U+, u+, 0x, 0X, both parsers return c on p + h.
C9_RoundTrip ==
  \A r \in RoundTripTexts :
    r.text = text =>
      /\ hexResult.called => hexResult = Some(r.cp)
      /\ cpResult.called => cpResult = Some(r.cp)

C9_Witness ==
  /\ text = <<"u", "+", "0", "0", "4", "1">>
  /\ hexResult = Some(65)
  /\ cpResult = Some(65)

\* a minus sign followed by a hexadecimal numeral of non-zero value
IsNegativeNumeral(t) ==
  /\ Len(t) >= 2
  /\ t[1] = "-"
  /\ IsHexNumeral(Tail(t))
  /\ DigitsValue(Tail(t)) > 0

\* a hexadecimal numeral, prefixed or not, past 0x10FFFF
IsBeyondNumeral(t) ==
  IsHexNumeral(HexRemainder(t)) /\ DigitsValue(HexRemainder(t)) > MAX_CODE_POINT

\* C10: every non-null result of either parser lies in [0, 0x10FFFF];
\* parseCodePoint rejects -1, every negative numeral and every numeral past
\* 0x10FFFF such as 110000, and accepts 10FFFF as 0x10FFFF.
C10_ResultsInRange ==
  /\ (hexResult.called /\ ~hexResult.isNull) => hexResult.value \in 0..MAX_CODE_POINT
  /\ (cpResult.called /\ ~cpResult.isNull) => cpResult.value \in 0..MAX_CODE_POINT
  /\ (cpResult.called /\ (IsNegativeNumeral(text) \/ IsBeyondNumeral(text)))
       => cpResult = Null
  /\ (cpResult.called /\ text = <<"1", "0", "F", "F", "F", "F">>)
       => cpResult = Some(MAX_CODE_POINT)

C10_Witness ==
  \/ text = <<"-", "1">> /\ cpResult = Null
  \/ text = <<"1", "1", "0", "0", "0", "0">> /\ cpResult = Null

----------------------------------------------------------------------------
(* Properties of the catalog, checked under SpecCatalog *)

Containing(cp) ==
  {i \in DOMAIN UNICODE_BLOCKS :
     UNICODE_BLOCKS[i].start <= cp /\ cp <= UNICODE_BLOCKS[i].end}

\* C3: getBlockByCodePoint(cp) returns the first block in table order that
\* contains cp when some block does, and undefined when none does.
C3_LookupFindsContainingBlock ==
  foundBlock.called =>
    IF Containing(codePoint) = {}
      THEN foundBlock = Undefined
      ELSE foundBlock = Found(Min(Containing(codePoint)))

\* a code point in the gap 0x0800..0x08ff is in no block
C3_Witness ==
  /\ codePoint = 2048
  /\ Containing(codePoint) = {}
  /\ foundBlock = Undefined

\* C7: no two distinct blocks of the catalog overlap.
C7_BlocksDisjoint ==
  \A i, j \in DOMAIN UNICODE_BLOCKS :
    i # j =>
      \/ UNICODE_BLOCKS[i].end < UNICODE_BLOCKS[j].start
      \/ UNICODE_BLOCKS[j].end < UNICODE_BLOCKS[i].start

\* the last code point of Basic Latin resolves to Basic Latin, not its neighbour
C7_Witness ==
  /\ Len(UNICODE_BLOCKS) >= 2
  /\ codePoint = 127
  /\ foundBlock = Found(1)
  /\ Cardinality(Containing(codePoint)) = 1

----------------------------------------------------------------------------
(* Properties of the name loader and readers *)

\* the key a name is stored under: upper-case hex, zero-padded to 4 digits
PaddedKey(c) == padStart(toUpperCase(numberToString16(c)), 4, "0")

\* C4 (SpecReaders): for every code point whose name is stored under its
\* padded key, getCharacterName and the hook's getName return that name.
C4_ReadersFindStoredNames ==
  ( /\ lookup.done
    /\ lookup.reader \in {"getCharacterName", "getName"}
    /\ lookup.names.kind = "object"
    /\ PaddedKey(lookup.charCode) \in DOMAIN lookup.names.entries )
  => /\ lookup.outcome = "name"
     /\ lookup.name = lookup.names.entries[PaddedKey(lookup.charCode)]

\* a names file that holds no name object
HoldsNoNameObject(f) == f.state # "json" \/ f.json.kind # "object"

\* C5 (SpecNames): when the names file is absent, unreadable, not JSON, or
\* JSON that is not an object, loadBlockNames returns the empty map and a
\* following lookup yields no name without throwing.
C5_DegradesToEmptyMap ==
  (lastLoad.called /\ HoldsNoNameObject(firstLoad[lastLoad.slug].seen)) =>
    /\ lastLoad.value = EmptyObject
    /\ lookup.done => lookup.outcome = "undefined"

\* C6 (SpecNames): the names file of a slug is accessed by at most one call,
\* the first, and every call returns what the first call returned.
C6_ReadAtMostOnce ==
  /\ \A slug \in NameSlugs : fsTouches[slug] <= 1
  /\ \A slug \in NameSlugs : firstLoad[slug].called => fsTouches[slug] = 1
  /\ lastLoad.called =>
       /\ firstLoad[lastLoad.slug].called
       /\ lastLoad.value = firstLoad[lastLoad.slug].value

\* a later call, served after the file changed, still returns the first map
C6_Witness ==
  /\ lastLoad.called
  /\ lastLoad.fromCache
  /\ files[lastLoad.slug] # firstLoad[lastLoad.slug].seen
  /\ lastLoad.value = firstLoad[lastLoad.slug].value

----------------------------------------------------------------------------
(* Properties of the catalog operations, checked under SpecOps *)

\* C11: the slugs of the catalog are pairwise distinct, getBlockBySlug(b.slug)
\* returns b itself, and a text that is no block's slug gives undefined.
C11_SlugsIdentifyBlocks ==
  /\ \A i, j \in DOMAIN UNICODE_BLOCKS :
       i # j => UNICODE_BLOCKS[i].slug # UNICODE_BLOCKS[j].slug
  /\ (call.op = "getBlockBySlug" /\ call.done) =>
       /\ \A i \in DOMAIN UNICODE_BLOCKS :
            UNICODE_BLOCKS[i].slug = call.text => call.found = i
       /\ (\A i \in DOMAIN UNICODE_BLOCKS : UNICODE_BLOCKS[i].slug # call.text)
            => call.found = 0

C11_Witness ==
  /\ call.op = "getBlockBySlug"
  /\ call.done
  /\ call.text = <<"h", "a", "n", "g", "u", "l", "-",
                   "s", "y", "l", "l", "a", "b", "l", "e", "s">>
  /\ call.found # 0
  /\ UNICODE_BLOCKS[call.found].name = "Hangul Syllables"


\* letters compared without regard to case, one position at a time
ContainsIgnoringCase(s, q) ==
  \E k \in 0..(Len(s) - Len(q)) :
    \A j \in 1..Len(q) : toLowerCaseChar(s[k + j]) = toLowerCaseChar(q[j])

\* the blocks whose name or category contains the text
MatchingBlocks(q) ==
  {i \in DOMAIN UNICODE_BLOCKS :
     \/ ContainsIgnoringCase(CharsOf[UNICODE_BLOCKS[i].name], q)
     \/ ContainsIgnoringCase(CharsOf[UNICODE_BLOCKS[i].cat], q)}

\* the place in the table of the k-th block returned
TableIndex(blocks, k) ==
  CHOOSE i \in DOMAIN UNICODE_BLOCKS : UNICODE_BLOCKS[i] = blocks[k]

\* C12: searchBlocks(query) returns exactly the blocks whose name or category
\* contains the query ignoring case, in table order and each once; the empty
\* query returns the whole table in table order.
C12_SearchReturnsMatches ==
  (call.op = "searchBlocks" /\ call.done) =>
    /\ \A k \in DOMAIN call.blocks : call.blocks[k] \in Range(UNICODE_BLOCKS)
    /\ {TableIndex(call.blocks, k) : k \in DOMAIN call.blocks} = MatchingBlocks(call.text)
    /\ \A k \in 1..(Len(call.blocks) - 1) :
         TableIndex(call.blocks, k) < TableIndex(call.blocks, k + 1)
    /\ call.text = <<>> => call.blocks = UNICODE_BLOCKS

\* an upper-case query that selects some blocks by their category alone, others
\* by their name, and leaves some blocks out
C12_Witness ==
  /\ call.op = "searchBlocks"
  /\ call.done
  /\ call.text = <<"S", "Y", "M", "B", "O", "L", "S">>
  /\ \E k \in DOMAIN call.blocks :
       ~ContainsIgnoringCase(CharsOf[call.blocks[k].name], call.text)
  /\ \E k \in DOMAIN call.blocks :
       ~ContainsIgnoringCase(CharsOf[call.blocks[k].cat], call.text)
  /\ Len(call.blocks) < Len(UNICODE_BLOCKS)

\* C13: getCharCodesForBlock(block) has end - start + 1 elements, starts at
\* block.start, ends at block.end, rises by one at every step, and a second
\* call returns an equal sequence.
C13_CharCodesCoverBlock ==
  (call.op = "getCharCodesForBlock" /\ call.done) =>
    LET block == UNICODE_BLOCKS[call.block]
    IN /\ Len(call.codes) = block.end - block.start + 1
       /\ call.codes[1] = block.start
       /\ call.codes[Len(call.codes)] = block.end
       /\ \A i \in 1..(Len(call.codes) - 1) : call.codes[i + 1] = call.codes[i] + 1
       /\ call.repeated => call.prevCodes = call.codes

\* both calls made for the Hangul Syllables block, 11184 code points
C13_Witness ==
  /\ call.op = "getCharCodesForBlock"
  /\ call.repeated
  /\ UNICODE_BLOCKS[call.block].name = "Hangul Syllables"
  /\ Len(call.codes) = 11184
  /\ Len(call.prevCodes) = 11184

\* C14: whatever operations and page computations have run, UNICODE_BLOCKS and
\* CATEGORIES hold the entries they held at module load, in the same order.
C14_CatalogNeverMutated ==
  /\ UNICODE_BLOCKS = LoadedBlocks
  /\ CATEGORIES = LoadedCategories

\* the sidebar has rendered the array that is UNICODE_BLOCKS itself, after a
\* code point lookup
C14_Witness ==
  /\ call.op = "Sidebar"
  /\ call.done
  /\ call.alias
  /\ Len(call.groups) = Len(CATEGORIES)
  /\ foundBlock.called


\* C17: for cp in 0xAC00..0xD7A3 and s = cp - 0xAC00, the name is
\* "HANGUL SYLLABLE " followed by L[s div 588], V[(s mod 588) div 28] and
\* T[s mod 28]; the three indices lie in 0..18, 0..20 and 0..27, so no part is
\* undefined; 0xAC00 gives HANGUL SYLLABLE GA and 0xD7A3 HANGUL SYLLABLE HIH.
C17_HangulNameFormula ==
  (syllable.called /\ syllable.cp >= 44032 /\ syllable.cp <= 55203) =>
    LET s == syllable.cp - 44032
        l == s \div 588
        v == (s % 588) \div 28
        t == s % 28
    IN /\ l \in 0..18
       /\ v \in 0..20
       /\ t \in 0..27
       /\ Len(JAMO_L_TABLE) = 19 /\ Len(JAMO_V_TABLE) = 21 /\ Len(JAMO_T_TABLE) = 28
       /\ JAMO_T_TABLE[1] = <<>>
       /\ syllable.name = HangulPrefix \o JAMO_L_TABLE[l + 1] \o JAMO_V_TABLE[v + 1]
                            \o JAMO_T_TABLE[t + 1]
       /\ ~includes(syllable.name, UndefinedText)
       /\ syllable.cp = 44032 => syllable.name = HangulPrefix \o <<"G", "A">>
       /\ syllable.cp = 55203 => syllable.name = HangulPrefix \o <<"H", "I", "H">>

\* the last syllable, with a trailing consonant, has been named
C17_Witness ==
  /\ syllable.called
  /\ syllable.cp = 55203
  /\ syllable.name = <<"H", "A", "N", "G", "U", "L", " ", "S", "Y", "L", "L", "A", "B", "L", "E", " ", "H", "I", "H">>


----------------------------------------------------------------------------
(* Properties of the build, checked under SpecBuild *)

\* the value of the attribute of that name, the empty text when there is none
Attr(element, name) ==
  IF \E i \in DOMAIN element.attrs : element.attrs[i].name = name
    THEN element.attrs[CHOOSE i \in DOMAIN element.attrs : element.attrs[i].name = name].value
    ELSE <<>>

\* the character records of the document: char elements that give a code point
Records ==
  {env.xml[i] : i \in {j \in DOMAIN env.xml :
                         env.xml[j].tag = "char" /\ ElementCodePoint(env.xml[j]) # <<>>}}

\* the code point a record is about
RecordCp(element) == DigitsValue(ElementCodePoint(element))

InCatalog(cp) ==
  \E i \in DOMAIN BuildBlocks : BuildBlocks[i].start <= cp /\ cp <= BuildBlocks[i].end

OwningBlock(cp) ==
  BuildBlocks[CHOOSE i \in DOMAIN BuildBlocks :
                BuildBlocks[i].start <= cp /\ cp <= BuildBlocks[i].end]

\* the name the map of the record's block holds for it, the empty text when
\* the map has no entry
StoredName(maps, element) ==
  LET data == maps[OwningBlock(RecordCp(element)).slug]
  IN IF ElementCodePoint(element) \in DOMAIN data
       THEN data[ElementCodePoint(element)] ELSE <<>>

\* a name with the digits put in place of every placeholder
RECURSIVE Filled(_, _)
Filled(name, digits) ==
  IF name = <<>> THEN <<>>
  ELSE (IF Head(name) = "#" THEN digits ELSE <<Head(name)>>) \o Filled(Tail(name), digits)

\* the hexadecimal digits of a code point, upper case, without zero padding
UnpaddedHex(cp) == toUpperCase(numberToString16(cp))

HasPlaceholder(element) == "#" \in Range(Attr(element, "na"))

ExpectedName(element) ==
  LET cp == RecordCp(element)
  IN IF Attr(element, "na") # <<>>
       THEN Filled(Attr(element, "na"), ElementCodePoint(element))
     ELSE IF Attr(element, "na1") # <<>> THEN Attr(element, "na1")
     ELSE IF cp >= 44032 /\ cp <= 55203 THEN getHangulSyllableName(cp)
     ELSE IF isCJKUnifiedIdeograph(cp) THEN getCJKUnifiedIdeographName(cp)
     ELSE <<>>

\* the name the emitted file of the record's block holds for it
EmittedName(element) ==
  LET file == outputDir[OwningBlock(RecordCp(element)).slug]
  IN IF file.state = "written" /\ ElementCodePoint(element) \in DOMAIN file.entries
       THEN file.entries[ElementCodePoint(element)] ELSE <<>>

\* C16: for every record with its code point in a catalog block, the name in
\* the map after parse and backfill, and in the emitted file, is the primary
\* name if non-empty (placeholders filled), else the legacy name if non-empty,
\* else the Hangul or CJK algorithmic name, else there is no entry; so the
\* backfill has replaced no name chosen by an earlier rule.
C16_NamePrecedence ==
  stage \in {"write", "done"} =>
    \A element \in Records :
      InCatalog(RecordCp(element)) =>
        /\ StoredName(blockDataMap, element) = ExpectedName(element)
        /\ stage = "done" => EmittedName(element) = ExpectedName(element)

\* a record with only a legacy name inside the Hangul range has kept it
\* through the backfill that named its neighbour, and it has been emitted
C16_Witness ==
  /\ stage = "done"
  /\ \E element \in Records :
       /\ Attr(element, "cp") = <<"A", "C", "0", "1">>
       /\ EmittedName(element) = <<"O", "L", "D", " ", "N", "A", "M", "E">>
  /\ outputDir[HangulSlug].entries[<<"A", "C", "0", "0">>] = HangulPrefix \o <<"G", "A">>

\* the blocks the backfill is about
IsBackfilledBlock(block) ==
  \/ block.name = "Hangul Syllables"
  \/ includes(CharsOf[block.name], CJKBlockName)

\* an algorithmic name is defined for the code point
HasAlgorithmicName(cp) ==
  \/ cp >= 44032 /\ cp <= 55203
  \/ isCJKUnifiedIdeograph(cp)

\* C18: once the backfill has run, whatever the parse produced, every code
\* point of the Hangul Syllables block and of the CJK Unified Ideograph blocks
\* that has an algorithmic name has a non-empty name in its block's map.
C18_BackfillCompletes ==
  stage \in {"write", "done"} =>
    \A i \in DOMAIN BuildBlocks :
      IsBackfilledBlock(BuildBlocks[i]) =>
        \A cp \in LoopCodePoints(BuildBlocks[i]) :
          HasAlgorithmicName(cp) =>
            /\ UnpaddedHex(cp) \in DOMAIN blockDataMap[BuildBlocks[i].slug]
            /\ blockDataMap[BuildBlocks[i].slug][UnpaddedHex(cp)] # <<>>

\* the parse of an empty document produced nothing, and the backfill has
\* named the last syllable and the last ideograph of the main CJK block
C18_Witness ==
  /\ stage = "write"
  /\ env.xml = <<>>
  /\ blockDataMap[HangulSlug][<<"D", "7", "A", "3">>] = HangulPrefix \o <<"H", "I", "H">>
  /\ \E i \in DOMAIN BuildBlocks :
       /\ BuildBlocks[i].name = "CJK Unified Ideographs"
       /\ blockDataMap[BuildBlocks[i].slug][<<"9", "F", "F", "F">>]
            = CJKPrefix \o <<"9", "F", "F", "F">>

\* every key of the map is the hexadecimal text of a code point of the block
KeysInside(data, block) ==
  \A key \in DOMAIN data :
    /\ IsHexText(key)
    /\ DigitsValue(key) >= block.start
    /\ DigitsValue(key) <= block.end

\* a record that has a name by some rule
IsNamed(element) ==
  \/ Attr(element, "na") # <<>>
  \/ Attr(element, "na1") # <<>>
  \/ HasAlgorithmicName(RecordCp(element))

\* C19: at every point of the build, every key of every block's map and of
\* every file is a code point inside that block's range, and a named code
\* point that no block contains is a key of no map and of no file.
C19_KeysInsideBlock ==
  /\ \A slug \in DOMAIN blockDataMap : KeysInside(blockDataMap[slug], BlockOfSlug(slug))
  /\ \A slug \in DOMAIN outputDir : KeysInside(outputDir[slug].entries, BlockOfSlug(slug))
  /\ \A element \in Records :
       (IsNamed(element) /\ ~InCatalog(RecordCp(element))) =>
         /\ \A slug \in DOMAIN blockDataMap :
              \A key \in DOMAIN blockDataMap[slug] : DigitsValue(key) # RecordCp(element)
         /\ \A slug \in DOMAIN outputDir :
              \A key \in DOMAIN outputDir[slug].entries : DigitsValue(key) # RecordCp(element)

\* a named record outside every block was dropped, and the record next to it
\* was emitted in its block's file
C19_Witness ==
  /\ stage = "done"
  /\ \E element \in Records :
       /\ Attr(element, "cp") = <<"0", "8", "7", "0">>
       /\ IsNamed(element)
       /\ ~InCatalog(RecordCp(element))
  /\ \E element \in Records :
       /\ Attr(element, "cp") = <<"1", "F", "6", "0", "0">>
       /\ EmittedName(element) = Attr(element, "na")

\* the number of times a step or command was run
Runs(step) == Cardinality({i \in DOMAIN log : log[i] = step})

LaterStageRan == Runs("parse") + Runs("generate") + Runs("write") > 0

DownloadFailed == Runs("fetch") > 0 /\ env.fetch # "ok"

\* C20, as claimed: once the download or the extraction of the archive has
\* failed, the batch has stopped with a non-zero exit status, the failed step
\* was not tried again, no later stage has run and the output files are as
\* they were before the run.
C20_FailureStopsBatch ==
  (\/ DownloadFailed
   \/ Runs("unzip") > 0 /\ env.unzip # "ok"
   \/ Runs("unzip") > 0 /\ ~env.archiveHasXml) =>
    /\ stage = "failed"
    /\ exitCode # 0
    /\ Runs("fetch") <= 1
    /\ Runs("unzip") + Runs("jar") <= 1
    /\ ~LaterStageRan
    /\ outputDir = env.outputDir

\* C20, amended: a failure of unzip is followed by one attempt with jar; once
\* the download has failed, or both unzip and jar have failed, or no XML file
\* is found, the batch has stopped with a non-zero exit status, no command
\* was run twice, no later stage has run and the output files are as they
\* were before the run.
C20_FailureStopsBatchAfterFallback ==
  /\ (Runs("unzip") > 0 /\ env.unzip # "ok") => Runs("jar") = 1
  /\ (\/ DownloadFailed
      \/ Runs("jar") > 0 /\ env.jar # "ok"
      \/ Runs("unzip") > 0 /\ ~env.archiveHasXml) =>
       /\ stage = "failed"
       /\ exitCode # 0
       /\ Runs("fetch") <= 1
       /\ Runs("unzip") <= 1
       /\ Runs("jar") <= 1
       /\ ~LaterStageRan
       /\ outputDir = env.outputDir

\* unzip and jar have both failed on a downloaded archive, with a file of an
\* earlier run in the output directory
C20_Witness ==
  /\ stage = "failed"
  /\ exitCode = 1
  /\ log = <<"fetch", "unzip", "jar">>
  /\ env.unzip = "fail"
  /\ env.jar = "fail"
  /\ outputDir = OldDir

----------------------------------------------------------------------------
(* Properties of repeated runs of the build, checked under SpecRuns *)

\* the runs that have left the start of main, oldest first: the finished ones
\* and, once it has chosen between download and cache, the current one
DecidedRuns == IF stage = "start" THEN runs ELSE Append(runs, RunSummary)

Fetched(run) == \E i \in DOMAIN run.log : run.log[i] = "fetch"

\* the run went on to extraction, or is about to
Extracts(run, current) ==
  \/ \E i \in DOMAIN run.log : run.log[i] = "unzip"
  \/ current /\ stage = "extract"

\* C21: a run calls fetch exactly when no file was at the cache location when
\* it started; and after a run that left a file there, every later run calls
\* no fetch and goes on to extract the file at the cache location, whether or
\* not that file can be extracted.
C21_DownloadIffNotCached ==
  /\ \A i \in DOMAIN DecidedRuns : Fetched(DecidedRuns[i]) <=> ~DecidedRuns[i].cached
  /\ \A i \in DOMAIN DecidedRuns : \A j \in DOMAIN DecidedRuns :
       (i < j /\ DecidedRuns[i].stored) =>
         /\ DecidedRuns[j].cached
         /\ ~Fetched(DecidedRuns[j])
         /\ Extracts(DecidedRuns[j], j > Len(runs))

\* the first run stored an archive that neither unzip nor jar could extract;
\* the second and the third run fetched nothing and failed on the same file
C21_Witness ==
  /\ Len(runs) = 2
  /\ ~runs[1].cached /\ runs[1].stored /\ runs[1].log = <<"fetch", "unzip", "jar">>
  /\ runs[1].exitCode = 1
  /\ runs[2].log = <<"unzip", "jar">> /\ runs[2].exitCode = 1
  /\ stage = "failed"
  /\ log = <<"unzip", "jar">>

\* the run called fetch, which rejected or resolved to a response that is not ok
DownloadFailedIn(run) == Fetched(run) /\ run.fetch # "ok"

\* C30: a run whose download failed, by a rejected fetch or by a response that
\* is not ok, leaves no file at the cache location, and the run after it
\* finds no file there and calls fetch again.
C30_FailedDownloadLeavesNoArchive ==
  /\ \A i \in DOMAIN DecidedRuns :
       DownloadFailedIn(DecidedRuns[i]) =>
         /\ DecidedRuns[i].log = <<"fetch">>
         /\ DecidedRuns[i].exitCode = 1
         /\ ~DecidedRuns[i].stored
         /\ i < Len(DecidedRuns) =>
              /\ ~DecidedRuns[i + 1].cached
              /\ DecidedRuns[i + 1].log # <<>> => DecidedRuns[i + 1].log[1] = "fetch"

\* the first run got an error status and the second a rejected fetch; the
\* third downloaded the archive and extracted it
C30_Witness ==
  /\ Len(runs) = 2
  /\ DownloadFailedIn(runs[1]) /\ runs[1].fetch = "httpError"
  /\ DownloadFailedIn(runs[2]) /\ runs[2].fetch = "reject"
  /\ log = <<"fetch", "unzip">>
  /\ stage = "parse"
  /\ zipCached

----------------------------------------------------------------------------
(* Properties of the search box, checked under SpecSearch *)

\* the change that set a timeout was followed by another change less than
\* DebounceMs later
Superseded(key) ==
  /\ key < Len(keys)
  /\ keys[key + 1].at - keys[key].at < DebounceMs

\* C22: in the block page a change of the query less than 300 ms after the
\* previous one cancels the previous pending URL update: at most one timeout
\* is pending, no navigation comes from a superseded change, and no pending
\* timeout belongs to one.
C22_DebouncedNavigation ==
  page = "block" =>
    /\ Len(timers) <= 1
    /\ \A i \in DOMAIN timers : ~Superseded(timers[i].key)
    /\ \A i \in DOMAIN navigations : ~Superseded(navigations[i].key)

----------------------------------------------------------------------------
(* Properties of useCharacterNames, checked under SpecHook *)

\* C24: at most one fetch is ever started for a slug; while it is in flight
\* the slug is in loadingPromises and every instance whose effect ran for the
\* slug is attached to that promise; once it has settled the slug is in
\* namesCache; a slug for which a fetch was started is at every instant in
\* the cache or in loadingPromises.
C24_OneFetchPerSlug ==
  /\ \A slug \in HookSlugs : fetchesOf(slug) <= 1
  /\ \A p \in DOMAIN promises :
       LET slug == promises[p].slug
       IN /\ hookCache[slug].has \/ loadingPromises[slug] = p
          /\ promises[p].phase = "fetching" => loadingPromises[slug] = p
          /\ promises[p].phase # "fetching" => hookCache[slug].has
          /\ promises[p].phase = "fetching" =>
               \A h \in Hooks :
                 (hooks[h].mounted /\ hooks[h].blockSlug = slug /\ ~hooks[h].effectPending)
                   => [hook |-> h, promise |-> p] \in callbacks

\* two instances asked for the same slug, the one fetch failed, and both got
\* the empty map from it
C24_Witness ==
  /\ Len(promises) = 1
  /\ promises[1].phase = "resolved"
  /\ promises[1].data = NoNames
  /\ hookCache[promises[1].slug] = [has |-> TRUE, value |-> NoNames]
  /\ loadingPromises[promises[1].slug] = 0
  /\ \A h \in {1, 2} :
       /\ hooks[h].mounted /\ hooks[h].blockSlug = promises[1].slug
       /\ ~hooks[h].effectPending /\ ~hooks[h].isLoading
  /\ callbacks = {}

\* every fetch has settled, every callback and every effect has run
Quiescent ==
  /\ callbacks = {}
  /\ \A p \in DOMAIN promises : promises[p].phase = "resolved"
  /\ \A h \in Hooks : ~hooks[h].effectPending

\* C25: once every outstanding fetch has settled, each instance holds the
\* names of its current blockSlug, those of the slug's cache entry, and is
\* not loading.
C25_NamesFollowSlug ==
  Quiescent =>
    \A h \in Hooks :
      hooks[h].mounted =>
        /\ hookCache[hooks[h].blockSlug].has
        /\ hooks[h].names = hookCache[hooks[h].blockSlug].value
        /\ ~hooks[h].isLoading

----------------------------------------------------------------------------
(* Properties of useFavorites, checked under SpecFavorites *)

\* the list an item gives the load effect: the parsed list, or none
ListOf(item) ==
  LET parsed == parse(item.text)
  IN IF item.has /\ item.text # <<>> /\ ~parsed.threw THEN parsed.list ELSE <<>>

\* some call so far asked for the code with one of the operations
Called(made, ops, code) == \E i \in DOMAIN made : made[i].op \in ops /\ made[i].code = code

\* C26: no setItem happens before the load effect has read the item; the
\* first setItem, when no favorites operation was called before it, stores
\* the list that was loaded; and a code of the loaded list is missing from a
\* stored text only after a toggle or a remove of that code.
C26_StoredFavoritesSurviveLoad ==
  /\ ~loadRead.done => writes = <<>>
  /\ \A i \in DOMAIN writes : writes[i].afterLoad
  /\ writes # <<>> =>
       LET loaded == ListOf(loadRead.item)
       IN /\ writes[1].calls = <<>> => writes[1].text = stringify(loaded)
          /\ \A i \in DOMAIN writes :
               \A code \in Range(loaded) \ Range(ListOf(Item(writes[i].text))) :
                 Called(writes[i].calls, {"toggle", "remove"}, code)

\* two favorites were stored; after the load the same text was written back
C26_Witness ==
  /\ loadRead.done
  /\ loadRead.item = Item(stringify(<<128512, 65>>))
  /\ Len(writes) = 1
  /\ writes[1].text = stringify(<<128512, 65>>)
  /\ storage = loadRead.item
  /\ favorites = <<128512, 65>>
  /\ isLoaded

NoDuplicates(list) == \A i \in DOMAIN list : \A j \in DOMAIN list : list[i] = list[j] => i = j

\* the item the page was loaded with
InitialItem == IF loadRead.done THEN loadRead.item ELSE storage

\* C27: when the stored list is absent or has no duplicates, the favorites
\* list holds no code point twice after any calls of toggleFavorite,
\* addFavorite and removeFavorite, and isFavorite(c) is true exactly for the
\* code points in the list.
C27_NoDuplicateFavorites ==
  NoDuplicates(ListOf(InitialItem)) =>
    /\ NoDuplicates(favorites)
    /\ \A code \in FavCodes : isFavorite(code) <=> code \in Range(favorites)

\* 65 was stored; it was added again and 128512 was toggled in
C27_Witness ==
  /\ loadRead.item = Item(stringify(<<65>>))
  /\ calls = <<[op |-> "add", code |-> 65], [op |-> "toggle", code |-> 128512]>>
  /\ updates = <<>>
  /\ favorites = <<65, 128512>>
  /\ isFavorite(65) /\ isFavorite(128512)

----------------------------------------------------------------------------
(* Properties of the toast, checked under SpecToast *)

\* C28: a toast that is shown, with no new message shown after it, is closed
\* 2000 ms after it appeared, however often the page renders meanwhile: it
\* is not on screen later than that, and it is closed at that time.
C28_ToastClosesAfterTwoSeconds ==
  toastShown.ever =>
    /\ toastMsg => clock <= toastShown.at + ToastMs
    /\ ~toastMsg => toastShown.closedAt = toastShown.at + ToastMs

\* C29: for every code point parseCodePoint accepts, surrogates included,
\* getCodeSnippets returns its six snippets and throws nothing.
C29_SnippetsNeverThrow ==
  snippets.called => ~snippets.threw /\ Len(snippets.list) = 6

\* the code points the builder looks up in this run: those of the elements
\* of the document that carry one
RunCodePoints ==
  {parseInt16(cpRegex(env.xml[i]).value).value :
     i \in {j \in DOMAIN env.xml : charRegex(env.xml[j]) /\ cpRegex(env.xml[j]).found}}

\* what getBlockByCodePoint returns when it finds the block at the index
\* findBlockForCodePoint found
AsLookup(index) == IF index = 0 THEN Undefined ELSE Found(index)

\* at and around every bound of the catalog, and outside the code space, the
\* builder's lookup finds the block at the index the catalog's lookup finds
SameBlockAtEveryBound ==
  \A cp \in CodePointInputs : findBlockForCodePoint(cp) = FindContaining(LoadedBlocks, cp, 1)

\* C23: the builder's table has the names, starts and ends of the catalog in
\* the same order; findBlockForCodePoint and getBlockByCodePoint find the same
\* block for every code point; every file the builder writes is named by a
\* slug that getBlockBySlug resolves, to the block the builder meant.
C23_BuilderTableIsCatalog ==
  /\ Len(BuildBlocks) = Len(UNICODE_BLOCKS)
  /\ \A i \in DOMAIN BuildBlocks :
       /\ BuildBlocks[i].name = UNICODE_BLOCKS[i].name
       /\ BuildBlocks[i].start = UNICODE_BLOCKS[i].start
       /\ BuildBlocks[i].end = UNICODE_BLOCKS[i].end
  /\ SameBlockAtEveryBound
  /\ \A cp \in RunCodePoints : getBlockByCodePoint(cp) = AsLookup(findBlockForCodePoint(cp))
  /\ \A slug \in DOMAIN outputDir :
       outputDir[slug].state = "written" =>
         /\ getBlockBySlug(slug) # 0
         /\ UNICODE_BLOCKS[getBlockBySlug(slug)].name = BlockOfSlug(slug).name

\* a finished run that looked up a code point of a block and wrote its file
C23_Witness ==
  /\ stage = "done"
  /\ \E cp \in RunCodePoints :
       /\ findBlockForCodePoint(cp) # 0
       /\ outputDir[BuildBlocks[findBlockForCodePoint(cp)].slug].state = "written"
       /\ getBlockBySlug(BuildBlocks[findBlockForCodePoint(cp)].slug) = findBlockForCodePoint(cp)

====
